---- MODULE Spec2Model ----
(***************************************************************************)
(* Session negotiation engine of the conference dashboard                  *)
(* (conference/frontend/src/app/dashboard/dashboard.ts).                   *)
(*                                                                         *)
(* One Dashboard per endpoint id.  A Dashboard owns the map `peers` of     *)
(* PeerState objects, the map `iceQueue` of buffered candidates and the    *)
(* registry `participantsMap`.  Every `await` of a handler is a call on    *)
(* the peer's RTCPeerConnection; the connection runs these calls one at a  *)
(* time in call order (its operations chain), so `chain[e][r]` holds the   *)
(* suspended handlers of one connection in the order their pending call    *)
(* was made, and only the head can resume.  Resuming runs the handler up   *)
(* to its next await, as one step.                                         *)
(*                                                                         *)
(* RTCPeerConnection itself is platform code; its signaling state machine  *)
(* is modelled after the W3C WebRTC rules for setLocalDescription,         *)
(* setRemoteDescription, createAnswer and addIceCandidate.                 *)
(***************************************************************************)
EXTENDS Integers, Sequences, FiniteSets, TLC

(* ----------------------------- bounds ---------------------------------- *)
MaxEvents == 5      \* inbound envelopes and browser callbacks per run
MaxCand == 2        \* distinct remote candidates per run

(* ------------------------------ values --------------------------------- *)
Ids == {"A", "B", "C"}             \* channel ids the relay hands out
Near == {"A", "B"}                 \* the ids of a call between two endpoints
NoChan == "null"                   \* an absent `to` / an unset myServerChan
Names == {"ann"}                   \* display names carried by roster rows

VARIABLES
  myServerChan,   \* [Ids -> Ids \cup {NoChan}]      Dashboard.myServerChan
  myPolite,       \* [Ids -> BOOLEAN]                Dashboard.myPolite
  participantsMap,\* [Ids -> [Ids -> Participant]]   Dashboard.participantsMap (remote rows)
  peers,          \* [Ids -> [Ids -> PeerState]]     Dashboard.peers
  chain,          \* [Ids -> [Ids -> Seq(Task)]]     suspended handlers per connection
  iceQueue,       \* [Ids -> [Ids -> Seq(Cand)]]     Dashboard.iceQueue
  timers,         \* [Ids -> [Ids -> Nat]]           pending setTimeout(renegotiate)
  out,            \* [Ids -> Seq(Envelope)]          envelopes handed to sendSig, not yet relayed
  localAudioTrack,\* [Ids -> Track]                  Dashboard.localAudioTrack
  localVideoTrack,\* [Ids -> Track]                  Dashboard.localVideoTrack
  subscriptions,  \* [Ids -> Nat]                    live subscriptions to messages$
  isNameUpdated,  \* [Ids -> BOOLEAN]                Dashboard.isNameUpdated (in a call)
  media,          \* [Ids -> Seq(Acquisition)]      pending getUserMedia / getDisplayMedia
  liveTracks,     \* [Ids -> SUBSET Track]          local video tracks that can still end
  nTracks,        \* [Ids -> Nat]                   local tracks acquired so far
  signaling,      \* [Ids -> Service]               Dashboard.signaling (SignalingService)
  nEvents,        \* events admitted so far
  nCand,          \* candidates produced so far
  delivered,      \* [Ids -> Seq(Envelope)]          history: envelopes handed over to e
  glare           \* history: both ends had an offer of their own under way at once

vars == <<myServerChan, myPolite, participantsMap, peers, chain, iceQueue,
          timers, out, localAudioTrack, localVideoTrack, subscriptions,
          isNameUpdated, media, liveTracks, nTracks, signaling, nEvents, nCand,
          delivered, glare>>

(* --------------------------- PeerState ---------------------------------- *)
\* A missing map entry.  A live entry has live = TRUE.
NoPeer ==
  [live |-> FALSE, makingOffer |-> FALSE, ignoreOffer |-> FALSE, polite |-> FALSE,
   isSettingRemoteAnswerPending |-> FALSE,
   sig |-> "closed", pendRemote |-> FALSE, curRemote |-> FALSE,
   audioSender |-> "null", videoSender |-> "null",
   negNeeded |-> FALSE, applied |-> <<>>]

\* st = { pc, makingOffer:false, ignoreOffer:false, polite:this.myPolite, ... }
\* pc starts stable with no description; addTransceiver marks it as needing
\* negotiation; `applied` is the list of candidates the connection accepted.
NewPeer(polite, audio, video) ==
  [live |-> TRUE, makingOffer |-> FALSE, ignoreOffer |-> FALSE, polite |-> polite,
   isSettingRemoteAnswerPending |-> FALSE,
   sig |-> "stable", pendRemote |-> FALSE, curRemote |-> FALSE,
   audioSender |-> audio, videoSender |-> video,
   negNeeded |-> TRUE, applied |-> <<>>]

\* pc.remoteDescription: the pending one, else the current one.
HasRemoteDescription(st) == st.pendRemote \/ st.curRemote

(* ------------------ RTCPeerConnection signaling rules ------------------ *)
\* Each operator tells whether the call succeeds in state st (otherwise it
\* rejects with InvalidStateError) and the connection after success.
CanSetLocalOffer(st) == st.sig \in {"stable", "have-local-offer"}
SetLocalOffer(st) == [st EXCEPT !.sig = "have-local-offer"]

CanRollback(st) == st.sig \in {"have-local-offer", "have-remote-offer"}
Rollback(st) == [st EXCEPT !.sig = "stable", !.pendRemote = FALSE]

\* An offer applied over a local offer rolls the local offer back implicitly.
CanSetRemoteOffer(st) == st.sig \in {"stable", "have-remote-offer", "have-local-offer"}
SetRemoteOffer(st) == [st EXCEPT !.sig = "have-remote-offer", !.pendRemote = TRUE]

CanCreateAnswer(st) == st.sig = "have-remote-offer"

CanSetLocalAnswer(st) == st.sig = "have-remote-offer"
SetLocalAnswer(st) ==
  [st EXCEPT !.sig = "stable", !.pendRemote = FALSE, !.curRemote = TRUE,
             !.negNeeded = FALSE]

CanSetRemoteAnswer(st) == st.sig = "have-local-offer"
SetRemoteAnswer(st) ==
  [st EXCEPT !.sig = "stable", !.curRemote = TRUE, !.negNeeded = FALSE]

CanAddIceCandidate(st) == HasRemoteDescription(st)
AddIceCandidate(st, c) == [st EXCEPT !.applied = Append(@, c)]

(* ------------------------------ tasks ----------------------------------- *)
\* A suspended handler: which handler, which call it awaits, and for a
\* flush the array it iterates (own = FALSE: the array iceQueue still maps;
\* own = TRUE: an array the map no longer holds, kept in q) and the index i
\* of the candidate being added.
Task(kind, step) ==
  [kind |-> kind, step |-> step, cand |-> 0, i |-> 0, own |-> FALSE, q |-> <<>>,
   did |-> <<>>]

(* --------------------------- the Dashboard ------------------------------ *)
\* The fields of endpoint e's Dashboard as one record; handlers are
\* functions from Dashboard to Dashboard.
D(e) ==
  [myServerChan |-> myServerChan[e], myPolite |-> myPolite[e],
   participantsMap |-> participantsMap[e], peers |-> peers[e],
   chain |-> chain[e], iceQueue |-> iceQueue[e], timers |-> timers[e],
   out |-> out[e], localAudioTrack |-> localAudioTrack[e],
   localVideoTrack |-> localVideoTrack[e], subscriptions |-> subscriptions[e],
   isNameUpdated |-> isNameUpdated[e], media |-> media[e],
   liveTracks |-> liveTracks[e], nTracks |-> nTracks[e],
   signaling |-> signaling[e]]

CommitState(e, d) ==
  /\ myServerChan' = [myServerChan EXCEPT ![e] = d.myServerChan]
  /\ myPolite' = [myPolite EXCEPT ![e] = d.myPolite]
  /\ participantsMap' = [participantsMap EXCEPT ![e] = d.participantsMap]
  /\ peers' = [peers EXCEPT ![e] = d.peers]
  /\ chain' = [chain EXCEPT ![e] = d.chain]
  /\ iceQueue' = [iceQueue EXCEPT ![e] = d.iceQueue]
  /\ timers' = [timers EXCEPT ![e] = d.timers]
  /\ localAudioTrack' = [localAudioTrack EXCEPT ![e] = d.localAudioTrack]
  /\ localVideoTrack' = [localVideoTrack EXCEPT ![e] = d.localVideoTrack]
  /\ subscriptions' = [subscriptions EXCEPT ![e] = d.subscriptions]
  /\ isNameUpdated' = [isNameUpdated EXCEPT ![e] = d.isNameUpdated]
  /\ media' = [media EXCEPT ![e] = d.media]
  /\ liveTracks' = [liveTracks EXCEPT ![e] = d.liveTracks]
  /\ nTracks' = [nTracks EXCEPT ![e] = d.nTracks]
  /\ signaling' = [signaling EXCEPT ![e] = d.signaling]

Commit(e, d) ==
  /\ CommitState(e, d)
  /\ out' = [out EXCEPT ![e] = d.out]

Envelope(type, to, cand) == [type |-> type, to |-> to, cand |-> cand]

\* sendSig(payload)
SendSig(d, env) == [d EXCEPT !.out = Append(@, env)]

(* ------------------------- the SignalingService ------------------------- *)
\* `sockets` lists the WebSockets the service has created, oldest first, each
\* with its readyState and the room of its url; `ws` is the index of the
\* socket the service holds (NoSocket: null); `room` is "" while unset;
\* `reconnects` counts the pending setTimeout(reconnect, 1000).  Every socket
\* carries the onclose and onerror handlers that connect() installed on it.
NoSocket == 0
RoomName == "testroom"

Unconnected == [ws |-> NoSocket, room |-> "", sockets |-> <<>>, reconnects |-> 0]

\* The service after connect(RoomName) once its socket has opened.
Connected ==
  [ws |-> 1, room |-> RoomName,
   sockets |-> <<[readyState |-> "OPEN", room |-> RoomName]>>, reconnects |-> 0]

\* connect(room): the socket held so far is not closed.
Connect(s, room) ==
  [s EXCEPT !.room = room,
            !.sockets = Append(@, [readyState |-> "CONNECTING", room |-> room]),
            !.ws = Len(s.sockets) + 1]

\* this.ws?.close(): a socket that is connecting or open starts closing and
\* its close event follows; on any other socket close() does nothing.
CloseWs(s) ==
  IF s.ws # NoSocket /\ s.sockets[s.ws].readyState \in {"CONNECTING", "OPEN"}
    THEN [s EXCEPT !.sockets[s.ws].readyState = "CLOSING"]
    ELSE s

DisconnectForgetsRoom(s) == [CloseWs(s) EXCEPT !.ws = NoSocket, !.room = ""]

\* disconnect()
Disconnect(s) == [CloseWs(s) EXCEPT !.ws = NoSocket]

\* reconnect()
Reconnect(s) == IF s.room # "" THEN Connect(s, s.room) ELSE s

\* ws.onclose of any socket the service created
OnClose(s) == [s EXCEPT !.reconnects = @ + 1]

\* ws.onerror of any socket the service created
OnError(s) == CloseWs(s)

\* messageIsForMe accepting every envelope, whatever its `to`.
MessageIsForAnyone(d, to) == TRUE

\* messageIsForMe(msg): msg.to ? msg.to === this.myServerChan : true
MessageIsForMe(d, to) == IF to # NoChan THEN to = d.myServerChan ELSE TRUE

\* getOrCreatePeer building a new PeerState even when one exists.
GetOrCreatePeerAlwaysNew(d, r) ==
  [d EXCEPT !.peers[r] = NewPeer(d.myPolite, d.localAudioTrack, d.localVideoTrack)]

\* getOrCreatePeer(remoteChan)
GetOrCreatePeer(d, r) ==
  IF d.peers[r].live THEN d
  ELSE [d EXCEPT !.peers[r] = NewPeer(d.myPolite, d.localAudioTrack, d.localVideoTrack)]

\* queueIce putting the candidate in front (unshift instead of push).
QueueIceAtHead(d, r, c) == [d EXCEPT !.iceQueue[r] = <<c>> \o @]

\* queueIce(remoteChan, cand)
QueueIce(d, r, c) == [d EXCEPT !.iceQueue[r] = Append(@, c)]

\* renegotiate with the signaling-state half of its guard left out.
RenegotiateNoStateGuard(d, r) ==
  LET st == d.peers[r] IN
  IF ~st.live THEN d
  ELSE IF st.makingOffer THEN d
  ELSE [d EXCEPT !.peers[r].makingOffer = TRUE,
                 !.chain[r] = Append(@, Task("reneg", "createOffer"))]

\* renegotiate(remoteChan), up to its first await.
Renegotiate(d, r) ==
  LET st == d.peers[r] IN
  IF ~st.live THEN d
  ELSE IF st.makingOffer \/ st.sig # "stable" THEN d
  ELSE [d EXCEPT !.peers[r].makingOffer = TRUE,
                 !.chain[r] = Append(@, Task("reneg", "createOffer"))]

(* ------------------- resuming a suspended handler ---------------------- *)
\* The handler goes back to the tail of the chain with its next call.
Suspend(d, r, t) == [d EXCEPT !.chain[r] = Append(@, t)]

\* The handler returns: the `finally` blocks of renegotiate /
\* onnegotiationneeded and of the answer handler run.
Finish(d, r, t) ==
  IF t.kind = "reneg" THEN [d EXCEPT !.peers[r].makingOffer = FALSE]
  ELSE IF t.kind = "answer"
    THEN [d EXCEPT !.peers[r].isSettingRemoteAnswerPending = FALSE]
  ELSE d

\* flushIce without its first guard (no session / no remote description).
FlushIceNoGuard(d, r, t) ==
  LET q == d.iceQueue[r] IN
  IF Len(q) = 0 THEN Finish(d, r, t)
  ELSE Suspend(d, r, [t EXCEPT !.step = "flush", !.i = 1, !.own = FALSE,
                               !.q = <<>>, !.did = Append(@, "flush")])

\* flushIce(remoteChan), up to its first await, called by handler t.
FlushIce(d, r, t) ==
  LET st == d.peers[r]
      q == d.iceQueue[r] IN
  IF ~st.live \/ ~HasRemoteDescription(st) THEN Finish(d, r, t)
  ELSE IF Len(q) = 0 THEN Finish(d, r, t)
  ELSE Suspend(d, r, [t EXCEPT !.step = "flush", !.i = 1, !.own = FALSE,
                               !.q = <<>>, !.did = Append(@, "flush")])

\* this.iceQueue.clear() in the place of delete(remoteChan): every
\* connection's buffer is forgotten.
DeleteEveryQueue(d, r) ==
  LET old == d.iceQueue[r] IN
  [d EXCEPT !.iceQueue = [x \in Ids |-> <<>>],
            !.chain[r] = [k \in DOMAIN @ |->
               IF @[k].step = "flush" /\ ~@[k].own
                 THEN [@[k] EXCEPT !.own = TRUE, !.q = old]
                 ELSE @[k]]]

\* this.iceQueue.delete(remoteChan): the map forgets the array; a flush
\* still iterating it keeps the array itself.
DeleteQueue(d, r) ==
  LET old == d.iceQueue[r] IN
  [d EXCEPT !.iceQueue[r] = <<>>,
            !.chain[r] = [k \in DOMAIN @ |->
               IF @[k].step = "flush" /\ ~@[k].own
                 THEN [@[k] EXCEPT !.own = TRUE, !.q = old]
                 ELSE @[k]]]

\* One turn of flushIce's loop: the awaited addIceCandidate(q[i]) settles
\* (a rejection is swallowed), then the next candidate, or the delete.
FlushStep(d, r, t) ==
  LET st == d.peers[r]
      arr == IF t.own THEN t.q ELSE d.iceQueue[r]
      c == arr[t.i]
      d1 == IF CanAddIceCandidate(st)
              THEN [d EXCEPT !.peers[r] = AddIceCandidate(st, c)]
              ELSE d IN
  IF t.i < Len(arr) THEN Suspend(d1, r, [t EXCEPT !.i = t.i + 1])
  ELSE Finish(DeleteQueue(d1, r), r, t)

\* try { st.audioSender.replaceTrack(...) } try { st.videoSender.replaceTrack(...) }
ReplaceTracks(d, r) ==
  [d EXCEPT !.peers[r].audioSender = d.localAudioTrack,
            !.peers[r].videoSender = d.localVideoTrack]

\* renegotiate / onnegotiationneeded after `await pc.createOffer()`.
RenegCreated(d, r, t) == Suspend(d, r, [t EXCEPT !.step = "setLocalOffer"])

\* ... after `await pc.setLocalDescription(offer)`: send the offer; finally.
RenegLocalSet(d, r, t) ==
  LET st == d.peers[r] IN
  IF CanSetLocalOffer(st)
    THEN Finish(SendSig([d EXCEPT !.peers[r] = SetLocalOffer(st)],
                        Envelope("offer", r, 0)), r, t)
    ELSE Finish(d, r, t)

\* offer handler after `await pc.setLocalDescription({type:'rollback'})`.
OfferRolledBack(d, r, t) ==
  LET st == d.peers[r] IN
  IF CanRollback(st)
    THEN Suspend([d EXCEPT !.peers[r] = Rollback(st)], r,
                 [t EXCEPT !.step = "setRemoteOffer", !.did = Append(@, "rollback")])
    ELSE Finish(d, r, t)

\* ... after `await pc.setRemoteDescription(offer)`: re-bind, createAnswer.
OfferRemoteSet(d, r, t) ==
  LET st == d.peers[r] IN
  IF CanSetRemoteOffer(st)
    THEN Suspend(ReplaceTracks([d EXCEPT !.peers[r] = SetRemoteOffer(st)], r), r,
                 [t EXCEPT !.step = "createAnswer",
                           !.did = @ \o <<"setRemote", "replaceTrack">>])
    ELSE Finish(d, r, t)

\* ... after `await pc.createAnswer()`.
OfferAnswerCreated(d, r, t) ==
  IF CanCreateAnswer(d.peers[r])
    THEN Suspend(d, r, [t EXCEPT !.step = "setLocalAnswer",
                                 !.did = Append(@, "createAnswer")])
    ELSE Finish(d, r, t)

\* ... after `await pc.setLocalDescription(answer)`: send it, flushIce.
OfferLocalSet(d, r, t) ==
  LET st == d.peers[r] IN
  IF CanSetLocalAnswer(st)
    THEN FlushIce(SendSig([d EXCEPT !.peers[r] = SetLocalAnswer(st)],
                          Envelope("answer", r, 0)), r,
                  [t EXCEPT !.did = @ \o <<"setLocal", "sendAnswer">>])
    ELSE Finish(d, r, t)

\* The answer handler without its flushIce call.
AnswerRemoteSetNoFlush(d, r, t) ==
  LET st == d.peers[r] IN
  IF CanSetRemoteAnswer(st)
    THEN Finish([d EXCEPT !.peers[r] = SetRemoteAnswer(st)], r, t)
    ELSE Finish(d, r, t)

\* answer handler after `await pc.setRemoteDescription(answer)`: flushIce.
AnswerRemoteSet(d, r, t) ==
  LET st == d.peers[r] IN
  IF CanSetRemoteAnswer(st)
    THEN FlushIce([d EXCEPT !.peers[r] = SetRemoteAnswer(st)], r, t)
    ELSE Finish(d, r, t)

\* ice_candidate handler after `await st.pc.addIceCandidate(cand)`.
IceAdded(d, r, t) ==
  LET st == d.peers[r] IN
  IF CanAddIceCandidate(st)
    THEN [d EXCEPT !.peers[r] = AddIceCandidate(st, t.cand)]
    ELSE d

\* The head of connection r's chain settles and its handler runs on.
Resume(d, r) ==
  LET t == Head(d.chain[r])
      d0 == [d EXCEPT !.chain[r] = Tail(@)] IN
  CASE t.step = "createOffer" -> RenegCreated(d0, r, t)
    [] t.step = "setLocalOffer" -> RenegLocalSet(d0, r, t)
    [] t.step = "rollback" -> OfferRolledBack(d0, r, t)
    [] t.step = "setRemoteOffer" -> OfferRemoteSet(d0, r, t)
    [] t.step = "createAnswer" -> OfferAnswerCreated(d0, r, t)
    [] t.step = "setLocalAnswer" -> OfferLocalSet(d0, r, t)
    [] t.step = "setRemoteAnswer" -> AnswerRemoteSet(d0, r, t)
    [] t.step = "addIce" -> IceAdded(d0, r, t)
    [] t.step = "flush" -> FlushStep(d0, r, t)

\* The awaited call at the head of connection r's chain rejects for a
\* reason of its own (a description or candidate the platform cannot
\* apply).  flushIce swallows the rejection and goes on with the next
\* candidate; every other handler leaves its try block: the catch logs and
\* the finally blocks run.  Nothing is rolled back.
Reject(d, r) ==
  LET t == Head(d.chain[r])
      d0 == [d EXCEPT !.chain[r] = Tail(@)]
      arr == IF t.own THEN t.q ELSE d0.iceQueue[r] IN
  IF t.step = "flush"
    THEN IF t.i < Len(arr) THEN Suspend(d0, r, [t EXCEPT !.i = t.i + 1])
         ELSE Finish(DeleteQueue(d0, r), r, t)
    ELSE Finish(d0, r, t)

(* --------------------------- the registry ------------------------------- *)
\* participantsMap is a Map: entries in insertion order, one per key.
Has(pm, ch) == \E k \in DOMAIN pm : pm[k].channel = ch
IndexOf(pm, ch) == CHOOSE k \in DOMAIN pm : pm[k].channel = ch

\* Map.set(key, value): replaces in place, or appends a new key.
MapSet(pm, p) ==
  IF Has(pm, p.channel) THEN [pm EXCEPT ![IndexOf(pm, p.channel)] = p]
  ELSE Append(pm, p)

\* Map.delete(key)
MapDelete(pm, ch) ==
  IF ~Has(pm, ch) THEN pm
  ELSE LET k == IndexOf(pm, ch) IN
       SubSeq(pm, 1, k - 1) \o SubSeq(pm, k + 1, Len(pm))

\* A MediaStream: the audio and the video track it holds ("null": none).
\* No code path disables a track, so a track in a stream is an enabled one.
\* `some` is FALSE for a null stream, which holds nothing.
NoStream == [some |-> FALSE, audio |-> "null", video |-> "null"]
EmptyStream == [some |-> TRUE, audio |-> "null", video |-> "null"]

\* A Participant with the default of every field.
NewParticipant(ch) ==
  [channel |-> ch, name |-> "Guest", isYou |-> FALSE, mic |-> "off", cam |-> "off",
   videoOn |-> FALSE, stream |-> NoStream, handRaised |-> FALSE, gaze |-> ""]

\* makeLocalParticipant(name)
MakeLocalParticipant ==
  [NewParticipant("__you__") EXCEPT !.name = "me", !.isYou = TRUE]

\* computeVideoOn looking at the stream only, not at cam.
ComputeVideoOnIgnoresCam(cam, stream) ==
  IF ~stream.some THEN FALSE ELSE stream.video # "null"

\* computeVideoOn(cam, stream)
ComputeVideoOn(cam, stream) ==
  IF cam # "on" \/ ~stream.some THEN FALSE ELSE stream.video # "null"

\* A field the payload does not carry (undefined / null).
Absent == "absent"

\* a ?? b forgetting its right-hand side.
OrLeftOnly(a, b) == a

\* a ?? b
Or(a, b) == IF a # Absent THEN a ELSE b

\* upsertParticipantFromPayload(row): skip self; an entry with the same
\* name (the first in map order) wins over the entry of the row's channel,
\* and the entry keeps its channel.  Every field falls back from the payload
\* to the previous entry to its default; videoOn is computed.
UpsertParticipantFromPayload(d, row) ==
  LET pm == d.participantsMap
      ch == row.channel
      byName == {k \in DOMAIN pm : pm[k].name = row.name /\ ~pm[k].isYou}
      first == CHOOSE k \in byName : \A j \in byName : k <= j
      known == byName # {} \/ Has(pm, ch)
      prev == IF byName # {} THEN pm[first]
              ELSE IF Has(pm, ch) THEN pm[IndexOf(pm, ch)]
              ELSE NewParticipant(ch)
      nextCam == Or(row.cam, prev.cam)
      next == [channel |-> prev.channel,
               name |-> Or(row.name, prev.name),
               isYou |-> FALSE,
               mic |-> Or(row.mic, prev.mic),
               cam |-> nextCam,
               videoOn |-> IF prev.stream.some
                             THEN ComputeVideoOn(nextCam, prev.stream) ELSE FALSE,
               stream |-> prev.stream,
               handRaised |-> IF row.handRaised \in {"true", "false"}
                                THEN row.handRaised = "true" ELSE prev.handRaised,
               gaze |-> Or(row.gaze, prev.gaze)] IN
  IF ch = NoChan THEN d
  ELSE IF d.myServerChan # NoChan /\ ch = d.myServerChan THEN d
  ELSE [d EXCEPT !.participantsMap = MapSet(pm, next)]

(* --------------------------- onSignal(msg) ------------------------------ *)
\* pc.ontrack of the session with r: a remote track of the given kind
\* ("audio" / "video") arrives.  The entry of r, or a shell entry named
\* Unknown, gets the participant's stream with the track added.
OnTrack(d, r, kind) ==
  LET pm == d.participantsMap
      pPrev == IF Has(pm, r) THEN pm[IndexOf(pm, r)]
               ELSE [NewParticipant(r) EXCEPT !.name = "Unknown"]
      ms0 == IF pPrev.stream.some THEN pPrev.stream ELSE EmptyStream
      ms == IF kind = "audio" THEN [ms0 EXCEPT !.audio = "remote"]
            ELSE [ms0 EXCEPT !.video = "remote"]
      updated == [pPrev EXCEPT
                    !.stream = ms,
                    !.mic = IF pPrev.mic # "off" THEN pPrev.mic
                            ELSE IF ms.audio # "null" THEN "on" ELSE "off",
                    !.cam = IF pPrev.cam # "off" THEN pPrev.cam
                            ELSE IF ms.video # "null" THEN "on" ELSE "off",
                    !.videoOn = ComputeVideoOn(pPrev.cam, ms)] IN
  [d EXCEPT !.participantsMap = MapSet(pm, updated)]

Msg(type) ==
  [type |-> type, to |-> NoChan, from |-> NoChan, cand |-> 0, polite |-> FALSE,
   channel |-> NoChan, rows |-> <<>>]

\* A participant payload; a field left Absent is not in the payload.
Row(ch, name) ==
  [channel |-> ch, name |-> name, mic |-> Absent, cam |-> Absent,
   handRaised |-> Absent, gaze |-> Absent]

\* 'welcome' handing the new role to the sessions that exist as well.
OnWelcomeReassignsRoles(d, msg) ==
  SendSig([d EXCEPT !.myServerChan = msg.channel, !.myPolite = msg.polite,
                    !.peers = [r \in Ids |->
                                 IF @[r].live THEN [@[r] EXCEPT !.polite = msg.polite]
                                 ELSE @[r]]],
          Envelope("name_update", NoChan, 0))

\* case 'welcome'
OnWelcome(d, msg) ==
  SendSig([d EXCEPT !.myServerChan = msg.channel, !.myPolite = msg.polite],
          Envelope("name_update", NoChan, 0))

\* One roster row, without the test for the local id.
OnRowTakesOwnId(d, row) ==
  LET ch == row.channel IN
  IF ch = NoChan THEN d
  ELSE IF Has(d.participantsMap, ch) THEN d
  ELSE LET d1 == GetOrCreatePeer(UpsertParticipantFromPayload(d, row), ch) IN
       [d1 EXCEPT !.timers[ch] = @ + 1]

\* One roster row, with a row of a known name taken for seen.
OnRowSkipsKnownName(d, row) ==
  LET ch == row.channel
      pm == d.participantsMap IN
  IF ch = NoChan THEN d
  ELSE IF d.myServerChan # NoChan /\ ch = d.myServerChan THEN d
  ELSE IF Has(pm, ch) THEN d
  ELSE IF \E k \in DOMAIN pm : pm[k].name = row.name /\ ~pm[k].isYou THEN d
  ELSE LET d1 == GetOrCreatePeer(UpsertParticipantFromPayload(d, row), ch) IN
       [d1 EXCEPT !.timers[ch] = @ + 1]

\* One roster row of 'participants', and the body of 'participant_joined'.
OnRow(d, row) ==
  LET ch == row.channel IN
  IF ch = NoChan THEN d
  ELSE IF d.myServerChan # NoChan /\ ch = d.myServerChan THEN d
  ELSE IF Has(d.participantsMap, ch) THEN d
  ELSE LET d1 == GetOrCreatePeer(UpsertParticipantFromPayload(d, row), ch) IN
       [d1 EXCEPT !.timers[ch] = @ + 1]

\* case 'participants': list.forEach(row => ...)
RECURSIVE OnParticipants(_, _)
OnParticipants(d, rows) ==
  IF rows = <<>> THEN d
  ELSE OnParticipants(OnRow(d, Head(rows)), Tail(rows))

\* case 'participant_left': delete the entry, close and delete the session.
\* The closed connection settles none of its pending calls.
OnParticipantLeft(d, ch) ==
  IF ch = NoChan THEN d
  ELSE LET d1 == [d EXCEPT !.participantsMap = MapDelete(@, ch)] IN
       IF d1.peers[ch].live
         THEN [d1 EXCEPT !.peers[ch] = NoPeer, !.chain[ch] = <<>>]
         ELSE d1

\* case 'participant_updated': upsert, and a deferred renegotiate when the
\* entry under the row's channel shows another cam or mic than before.
OnParticipantUpdated(d, row) ==
  LET ch == row.channel
      pm == d.participantsMap
      d1 == UpsertParticipantFromPayload(d, row)
      pm1 == d1.participantsMap
      prevCam == IF Has(pm, ch) THEN pm[IndexOf(pm, ch)].cam ELSE Absent
      prevMic == IF Has(pm, ch) THEN pm[IndexOf(pm, ch)].mic ELSE Absent
      changed == /\ Has(pm1, ch)
                 /\ \/ prevCam # pm1[IndexOf(pm1, ch)].cam
                    \/ prevMic # pm1[IndexOf(pm1, ch)].mic IN
  IF ch = NoChan THEN d
  ELSE IF d.myServerChan # NoChan /\ ch = d.myServerChan THEN d
  ELSE IF changed THEN [d1 EXCEPT !.timers[ch] = @ + 1]
  ELSE d1

\* The offer handler with the ignore test left out: every offer is accepted.
OnOfferNeverIgnored(d, msg) ==
  IF ~MessageIsForMe(d, msg.to) THEN d
  ELSE IF msg.from = NoChan THEN d
  ELSE LET from == msg.from
           d1 == GetOrCreatePeer(d, from)
           st == d1.peers[from]
           d2 == [d1 EXCEPT !.peers[from].ignoreOffer = FALSE] IN
       Suspend(d2, from,
         Task("offer", IF st.sig # "stable" THEN "rollback" ELSE "setRemoteOffer"))

\* The offer handler with the roles exchanged: the polite side ignores.
OnOfferPoliteIgnores(d, msg) ==
  IF ~MessageIsForMe(d, msg.to) THEN d
  ELSE IF msg.from = NoChan THEN d
  ELSE LET from == msg.from
           d1 == GetOrCreatePeer(d, from)
           st == d1.peers[from]
           offerCollision == st.makingOffer \/ st.sig # "stable"
           ignoreOffer == st.polite /\ offerCollision
           d2 == [d1 EXCEPT !.peers[from].ignoreOffer = ignoreOffer] IN
       IF ignoreOffer THEN d2
       ELSE Suspend(d2, from,
              Task("offer", IF st.sig # "stable" THEN "rollback" ELSE "setRemoteOffer"))

\* The offer handler with the collision test reduced to makingOffer.
OnOfferCollisionOnlyWhileMaking(d, msg) ==
  IF ~MessageIsForMe(d, msg.to) THEN d
  ELSE IF msg.from = NoChan THEN d
  ELSE LET from == msg.from
           d1 == GetOrCreatePeer(d, from)
           st == d1.peers[from]
           offerCollision == st.makingOffer
           ignoreOffer == ~st.polite /\ offerCollision
           d2 == [d1 EXCEPT !.peers[from].ignoreOffer = ignoreOffer] IN
       IF ignoreOffer THEN d2
       ELSE Suspend(d2, from,
              Task("offer", IF st.sig # "stable" THEN "rollback" ELSE "setRemoteOffer"))

\* case 'offer', up to the first await.
OnOffer(d, msg) ==
  IF ~MessageIsForMe(d, msg.to) THEN d
  ELSE IF msg.from = NoChan THEN d
  ELSE LET from == msg.from
           d1 == GetOrCreatePeer(d, from)
           st == d1.peers[from]
           offerCollision == st.makingOffer \/ st.sig # "stable"
           ignoreOffer == ~st.polite /\ offerCollision
           d2 == [d1 EXCEPT !.peers[from].ignoreOffer = ignoreOffer] IN
       IF ignoreOffer THEN d2
       ELSE Suspend(d2, from,
              Task("offer", IF st.sig # "stable" THEN "rollback" ELSE "setRemoteOffer"))

\* The answer handler creating the session it does not find.
OnAnswerCreatesPeer(d, msg) ==
  IF ~MessageIsForMe(d, msg.to) THEN d
  ELSE IF msg.from = NoChan THEN d
  ELSE LET d1 == GetOrCreatePeer(d, msg.from) IN
       Suspend([d1 EXCEPT !.peers[msg.from].isSettingRemoteAnswerPending = TRUE],
               msg.from, Task("answer", "setRemoteAnswer"))

\* case 'answer', up to the first await.
OnAnswer(d, msg) ==
  IF ~MessageIsForMe(d, msg.to) THEN d
  ELSE IF msg.from = NoChan THEN d
  ELSE IF ~d.peers[msg.from].live THEN d
  ELSE Suspend([d EXCEPT !.peers[msg.from].isSettingRemoteAnswerPending = TRUE],
               msg.from, Task("answer", "setRemoteAnswer"))

\* case 'ice_candidate', up to the first await.
OnIceCandidate(d, msg) ==
  IF ~MessageIsForMe(d, msg.to) THEN d
  ELSE IF msg.from = NoChan THEN d
  ELSE LET st == d.peers[msg.from] IN
       IF ~st.live THEN QueueIce(d, msg.from, msg.cand)
       ELSE IF HasRemoteDescription(st)
         THEN Suspend(d, msg.from, [Task("ice", "addIce") EXCEPT !.cand = msg.cand])
       ELSE QueueIce(d, msg.from, msg.cand)

OnSignal(d, msg) ==
  CASE msg.type = "welcome" -> OnWelcome(d, msg)
    [] msg.type = "participants" -> OnParticipants(d, msg.rows)
    [] msg.type = "participant_joined" -> OnRow(d, msg.rows[1])
    [] msg.type = "participant_left" -> OnParticipantLeft(d, msg.channel)
    [] msg.type = "participant_updated" -> OnParticipantUpdated(d, msg.rows[1])
    [] msg.type = "offer" -> OnOffer(d, msg)
    [] msg.type = "answer" -> OnAnswer(d, msg)
    [] msg.type = "ice_candidate" -> OnIceCandidate(d, msg)
    [] OTHER -> d

\* messages$ hands the message to every subscription in turn.
RECURSIVE Dispatch(_, _, _)
Dispatch(d, msg, n) ==
  IF n = 0 THEN d ELSE Dispatch(OnSignal(d, msg), msg, n - 1)

(* --------------------------- local intents ------------------------------ *)
\* updateNameFirst() -> joinRoom()
JoinRoomD(d) ==
  [d EXCEPT !.participantsMap = MapSet(@, MakeLocalParticipant),
            !.signaling = Connect(@, RoomName),
            !.subscriptions = @ + 1, !.isNameUpdated = TRUE]

LeaveCallUnsubscribes(d) ==
  [SendSig(d, Envelope("bye", NoChan, 0)) EXCEPT
     !.peers = [r \in Ids |-> NoPeer],
     !.chain = [r \in Ids |-> <<>>],
     !.participantsMap = <<>>,
     !.subscriptions = 0,
     !.isNameUpdated = FALSE]

\* leaveCall(): bye, the tracks of the local entry's stream are stopped,
\* every session is closed, the registry is emptied.
LeaveCallD(d) ==
  [SendSig(d, Envelope("bye", NoChan, 0)) EXCEPT
     !.liveTracks = IF Has(d.participantsMap, "__you__")
                      THEN @ \ {d.participantsMap[IndexOf(d.participantsMap,
                                                           "__you__")].stream.video}
                      ELSE @,
     !.peers = [r \in Ids |-> NoPeer],
     !.chain = [r \in Ids |-> <<>>],
     !.participantsMap = <<>>,
     !.isNameUpdated = FALSE]

\* pc.onnegotiationneeded: the body of renegotiate on this connection.
OnNegotiationNeeded(d, r) ==
  Renegotiate([d EXCEPT !.peers[r].negNeeded = FALSE], r)

\* setTimeout(() => this.renegotiate(ch), 100) fires.
TimerFired(d, r) == Renegotiate([d EXCEPT !.timers[r] = @ - 1], r)

(* ------------------------------ actions --------------------------------- *)
(* ----------------------------- local media ------------------------------ *)
\* The tracks getUserMedia / getDisplayMedia hand out, in order.
TrackName(n) == <<"t1", "t2", "t3", "t4", "t5", "t6">>[n]

\* this.participantsMap.get('__you__')
HasYou(d) == Has(d.participantsMap, "__you__")
You(d) == d.participantsMap[IndexOf(d.participantsMap, "__you__")]

\* A suspended toggleMic / toggleCam / shareScreen: the call it awaits and
\* the `me` it read before the await.
Acquisition(kind, me) == [kind |-> kind, me |-> me]

\* this.peers.forEach((_st, ch) => this.renegotiate(ch))
RenegotiateAll(d) ==
  [d EXCEPT !.peers = [r \in Ids |-> Renegotiate(d, r).peers[r]],
            !.chain = [r \in Ids |-> Renegotiate(d, r).chain[r]]]

\* refreshLocalPreview that also requests an offer on every session.
RefreshLocalPreviewRenegotiates(d) ==
  LET hasCam == d.localVideoTrack # "null"
      preview == [EmptyStream EXCEPT !.video = d.localVideoTrack]
      pm == IF HasYou(d)
              THEN MapSet(d.participantsMap,
                     [You(d) EXCEPT
                        !.stream = IF hasCam THEN preview ELSE NoStream,
                        !.videoOn = ComputeVideoOn(IF hasCam THEN "on" ELSE "off",
                                                   IF hasCam THEN preview ELSE NoStream),
                        !.cam = IF hasCam THEN "on" ELSE "off"])
              ELSE d.participantsMap IN
  RenegotiateAll(
    [d EXCEPT !.participantsMap = pm,
              !.peers = [r \in Ids |->
                 IF @[r].live THEN ReplaceTracks(d, r).peers[r] ELSE @[r]]])

\* refreshLocalPreview(): a new preview stream holding the local video
\* track, the local entry's stream / videoOn / cam set from it, and the
\* senders of every session re-bound with replaceTrack.
RefreshLocalPreview(d) ==
  LET hasCam == d.localVideoTrack # "null"
      preview == [EmptyStream EXCEPT !.video = d.localVideoTrack]
      pm == IF HasYou(d)
              THEN MapSet(d.participantsMap,
                     [You(d) EXCEPT
                        !.stream = IF hasCam THEN preview ELSE NoStream,
                        !.videoOn = ComputeVideoOn(IF hasCam THEN "on" ELSE "off",
                                                   IF hasCam THEN preview ELSE NoStream),
                        !.cam = IF hasCam THEN "on" ELSE "off"])
              ELSE d.participantsMap IN
  [d EXCEPT !.participantsMap = pm,
            !.peers = [r \in Ids |->
               IF @[r].live THEN ReplaceTracks(d, r).peers[r] ELSE @[r]]]

\* toggleMic() from refreshLocalPreview on: the entry written back is the
\* `me` read at the start, with the new mic.
MicTail(d, me, next) ==
  LET d1 == RefreshLocalPreview(d)
      d2 == [d1 EXCEPT !.participantsMap = MapSet(@, [me EXCEPT !.mic = next])] IN
  RenegotiateAll(SendSig(d2, Envelope("mic_toggle", NoChan, 0)))

\* toggleMic(), up to its await (turning on) or to its end (turning off).
ToggleMic(d) ==
  IF ~HasYou(d) THEN d
  ELSE IF You(d).mic = "on"
    THEN MicTail([d EXCEPT !.localAudioTrack = "null"], You(d), "off")
  ELSE [d EXCEPT !.media = Append(@, Acquisition("mic", You(d)))]

\* toggleCam() from refreshLocalPreview on.
CamTail(d, me, next) ==
  LET d1 == RefreshLocalPreview(d)
      preview == [EmptyStream EXCEPT !.video = d.localVideoTrack]
      d2 == [d1 EXCEPT !.participantsMap =
               MapSet(@, [me EXCEPT !.cam = next, !.videoOn = (next = "on"),
                                    !.stream = preview])] IN
  RenegotiateAll(SendSig(d2, Envelope("cam_toggle", NoChan, 0)))

\* toggleCam(), up to its await (turning on) or to its end (turning off:
\* the track is stopped, which fires no ended event).
ToggleCam(d) ==
  IF ~HasYou(d) THEN d
  ELSE IF You(d).cam = "on"
    THEN CamTail([d EXCEPT !.liveTracks = @ \ {d.localVideoTrack},
                           !.localVideoTrack = "null"], You(d), "off")
  ELSE [d EXCEPT !.media = Append(@, Acquisition("cam", You(d)))]

\* shareScreen(), up to its await.
ShareScreen(d) ==
  [d EXCEPT !.media = Append(@, Acquisition("screen", NewParticipant("__you__")))]

\* shareScreen() after getDisplayMedia resolved and the screen track is in
\* place: refresh, then the local entry as read now.
ScreenTail(d) ==
  LET d1 == RefreshLocalPreview(d)
      preview == [EmptyStream EXCEPT !.video = d.localVideoTrack]
      d2 == IF HasYou(d1)
              THEN [d1 EXCEPT !.participantsMap =
                      MapSet(@, [You(d1) EXCEPT !.cam = "on",
                                   !.videoOn = ComputeVideoOn("on", preview)])]
              ELSE d1 IN
  RenegotiateAll(SendSig(d2, Envelope("cam_toggle", NoChan, 0)))

\* track.onended of a camera or screen track: the same body in both.
TrackEnded(d, tr) ==
  LET d1 == RefreshLocalPreview([d EXCEPT !.liveTracks = @ \ {tr},
                                          !.localVideoTrack = "null"])
      d2 == IF HasYou(d1)
              THEN [d1 EXCEPT !.participantsMap =
                      MapSet(@, [You(d1) EXCEPT !.cam = "off", !.videoOn = FALSE])]
              ELSE d1 IN
  RenegotiateAll(SendSig(d2, Envelope("cam_toggle", NoChan, 0)))

\* Without(s, k): sequence s with its k-th element taken out.
Without(s, k) == SubSeq(s, 1, k - 1) \o SubSeq(s, k + 1, Len(s))

\* The k-th pending acquisition resolves with a new track.
MediaResolved(d, k) ==
  LET t == d.media[k]
      tr == TrackName(d.nTracks + 1)
      d0 == [d EXCEPT !.media = Without(@, k), !.nTracks = @ + 1] IN
  CASE t.kind = "mic" -> MicTail([d0 EXCEPT !.localAudioTrack = tr], t.me, "on")
    [] t.kind = "cam" ->
         CamTail([d0 EXCEPT !.localVideoTrack = tr, !.liveTracks = @ \cup {tr}],
                 t.me, "on")
    [] t.kind = "screen" ->
         ScreenTail([d0 EXCEPT !.liveTracks = (@ \ {d.localVideoTrack}) \cup {tr},
                               !.localVideoTrack = tr])

\* The k-th pending acquisition rejects: alert, return.
MediaRejected(d, k) == [d EXCEPT !.media = Without(@, k)]

\* stopAndClearLocalTracks()
StopAndClearLocalTracks(d) ==
  LET d1 == [d EXCEPT !.liveTracks = @ \ {d.localVideoTrack},
                      !.localVideoTrack = "null", !.localAudioTrack = "null"] IN
  IF HasYou(d1)
    THEN [d1 EXCEPT !.participantsMap =
            MapSet(@, [You(d1) EXCEPT !.cam = "off", !.mic = "off",
                                       !.stream = NoStream, !.videoOn = FALSE])]
    ELSE d1

\* ngOnDestroy(): bye, the subscription of the last joinRoom is released,
\* every session is closed, local tracks, registry and buffers are cleared.
NgOnDestroy(d) ==
  LET d1 == SendSig(d, Envelope("bye", NoChan, 0))
      d2 == [d1 EXCEPT !.subscriptions = IF @ > 0 THEN @ - 1 ELSE 0,
                       !.signaling = Disconnect(@),
                       !.peers = [r \in Ids |-> NoPeer],
                       !.chain = [r \in Ids |-> <<>>]] IN
  [StopAndClearLocalTracks(d2) EXCEPT
     !.participantsMap = <<>>,
     !.iceQueue = [r \in Ids |-> <<>>]]

Others(e) == Near \ {e}

\* An inbound envelope reaches endpoint e's socket and is dispatched.
Receive(e, msg) ==
  /\ subscriptions[e] > 0
  /\ nEvents < MaxEvents
  /\ nEvents' = nEvents + 1
  /\ Commit(e, Dispatch(D(e), msg, subscriptions[e]))

JoinRoom(e) ==
  /\ ~isNameUpdated[e]
  /\ nEvents < MaxEvents
  /\ nEvents' = nEvents + 1
  /\ Commit(e, JoinRoomD(D(e)))
  /\ UNCHANGED nCand

LeaveCall(e) ==
  /\ isNameUpdated[e]
  /\ nEvents < MaxEvents
  /\ nEvents' = nEvents + 1
  /\ Commit(e, LeaveCallD(D(e)))
  /\ UNCHANGED nCand

Welcome(e) ==
  /\ \E p \in BOOLEAN :
       Receive(e, [Msg("welcome") EXCEPT !.channel = e, !.polite = p])
  /\ UNCHANGED nCand

Participants(e) ==
  /\ \E r \in Near, n \in Names :
       Receive(e, [Msg("participants") EXCEPT !.rows = <<Row(r, n)>>])
  /\ UNCHANGED nCand

ParticipantJoined(e) ==
  /\ \E r \in Near, n \in Names :
       Receive(e, [Msg("participant_joined") EXCEPT !.rows = <<Row(r, n)>>])
  /\ UNCHANGED nCand

ParticipantLeft(e) ==
  /\ \E r \in Near : Receive(e, [Msg("participant_left") EXCEPT !.channel = r])
  /\ UNCHANGED nCand

OfferIn(e) ==
  /\ \E r \in Others(e), to \in Near \cup {NoChan} :
       Receive(e, [Msg("offer") EXCEPT !.from = r, !.to = to])
  /\ UNCHANGED nCand

AnswerIn(e) ==
  /\ \E r \in Others(e), to \in Near \cup {NoChan} :
       Receive(e, [Msg("answer") EXCEPT !.from = r, !.to = to])
  /\ UNCHANGED nCand

IceIn(e) ==
  /\ nCand < MaxCand
  /\ nCand' = nCand + 1
  /\ \E r \in Others(e), to \in Near \cup {NoChan} :
       Receive(e, [Msg("ice_candidate") EXCEPT !.from = r, !.to = to,
                                                !.cand = nCand + 1])

TimerFires(e) ==
  /\ \E r \in Ids : timers[e][r] > 0 /\ Commit(e, TimerFired(D(e), r))
  /\ UNCHANGED <<nEvents, nCand>>

NegotiationNeeded(e) ==
  /\ \E r \in Ids :
       /\ peers[e][r].live
       /\ peers[e][r].negNeeded
       /\ Commit(e, OnNegotiationNeeded(D(e), r))
  /\ UNCHANGED <<nEvents, nCand>>

\* The pending call at the head of a connection's chain settles.
Settle(e) ==
  /\ \E r \in Ids : chain[e][r] # <<>> /\ Commit(e, Resume(D(e), r))
  /\ UNCHANGED <<nEvents, nCand>>

\* The relay takes the oldest outbound envelope off the socket.
RelayTakes(e) ==
  /\ out[e] # <<>>
  /\ out' = [out EXCEPT ![e] = Tail(@)]
  /\ UNCHANGED <<myServerChan, myPolite, participantsMap, peers, chain, iceQueue,
                 timers, localAudioTrack, localVideoTrack, subscriptions,
                 isNameUpdated, media, liveTracks, nTracks, signaling, nEvents,
                 nCand, delivered, glare>>

\* pc.onicecandidate: the connection has gathered a candidate.
IceGathered(e) ==
  /\ nCand < MaxCand
  /\ nCand' = nCand + 1
  /\ \E r \in Ids :
       /\ peers[e][r].live
       /\ peers[e][r].sig = "have-local-offer" \/ peers[e][r].curRemote
       /\ Commit(e, SendSig(D(e), Envelope("ice_candidate", r, nCand + 1)))
  /\ UNCHANGED nEvents

\* The relay hands the oldest envelope of s's socket to the endpoint it is
\* addressed to, stamped with its sender.
Deliver(s) ==
  /\ out[s] # <<>>
  /\ LET env == Head(out[s])
         e == env.to
         msg == [Msg(env.type) EXCEPT !.from = s, !.to = e, !.cand = env.cand]
         d == Dispatch([D(e) EXCEPT !.out = IF e = s THEN Tail(@) ELSE @], msg,
                       subscriptions[e]) IN
     /\ e \in Ids
     /\ CommitState(e, d)
     /\ out' = [x \in Ids |-> IF x = e THEN d.out
                                ELSE IF x = s THEN Tail(out[s]) ELSE out[x]]
     /\ delivered' = [delivered EXCEPT ![e] = Append(@, env)]
  /\ UNCHANGED <<nEvents, nCand>>

(* --------------------------- specification ------------------------------ *)
\* The state after construction of every Dashboard.
Init ==
  /\ myServerChan = [e \in Ids |-> NoChan]
  /\ myPolite = [e \in Ids |-> TRUE]
  /\ participantsMap = [e \in Ids |-> <<>>]
  /\ peers = [e \in Ids |-> [r \in Ids |-> NoPeer]]
  /\ chain = [e \in Ids |-> [r \in Ids |-> <<>>]]
  /\ iceQueue = [e \in Ids |-> [r \in Ids |-> <<>>]]
  /\ timers = [e \in Ids |-> [r \in Ids |-> 0]]
  /\ out = [e \in Ids |-> <<>>]
  /\ localAudioTrack = [e \in Ids |-> "null"]
  /\ localVideoTrack = [e \in Ids |-> "null"]
  /\ subscriptions = [e \in Ids |-> 0]
  /\ signaling = [e \in Ids |-> Unconnected]
  /\ isNameUpdated = [e \in Ids |-> FALSE]
  /\ media = [e \in Ids |-> <<>>]
  /\ liveTracks = [e \in Ids |-> {}]
  /\ nTracks = [e \in Ids |-> 0]
  /\ nEvents = 0
  /\ nCand = 0
  /\ delivered = [e \in Ids |-> <<>>]
  /\ glare = FALSE

\* One Dashboard (endpoint A) against an arbitrary relay and remote side.
\* No handler reads `out`, so the relay drains the socket before the next
\* event is admitted; nothing else depends on when it does.
Local == "A"

Quiet == out[Local] = <<>>
NoPair == UNCHANGED <<delivered, glare>>

Next ==
  \/ NoPair /\ RelayTakes(Local)
  \/ Quiet /\ NoPair /\ JoinRoom(Local)
  \/ Quiet /\ NoPair /\ LeaveCall(Local)
  \/ Quiet /\ NoPair /\ Welcome(Local)
  \/ Quiet /\ NoPair /\ Participants(Local)
  \/ Quiet /\ NoPair /\ ParticipantJoined(Local)
  \/ Quiet /\ NoPair /\ ParticipantLeft(Local)
  \/ Quiet /\ NoPair /\ OfferIn(Local)
  \/ Quiet /\ NoPair /\ AnswerIn(Local)
  \/ Quiet /\ NoPair /\ IceIn(Local)
  \/ Quiet /\ NoPair /\ TimerFires(Local)
  \/ Quiet /\ NoPair /\ NegotiationNeeded(Local)
  \/ Quiet /\ NoPair /\ Settle(Local)

Spec == Init /\ [][Next]_vars

(* ------------------------ two Dashboards in a call ---------------------- *)
\* Endpoint A was welcomed as impolite and B as polite; each holds an
\* established session with the other (created by the other's first offer,
\* answered, then named by a join notice, whose renegotiate timer is still
\* pending).  The relay delivers each socket's envelopes in order.
Impolite == "A"
Polite == "B"

Established(polite) ==
  [NewPeer(polite, "null", "null") EXCEPT !.curRemote = TRUE, !.negNeeded = FALSE]

InitPair ==
  /\ myServerChan = [e \in Ids |-> e]
  /\ myPolite = [e \in Ids |-> e = Polite]
  /\ participantsMap =
       [e \in Ids |->
          IF e \in Near
            THEN <<MakeLocalParticipant,
                   [NewParticipant(CHOOSE r \in Others(e) : TRUE) EXCEPT !.name = "ann"]>>
            ELSE <<>>]
  /\ peers = [e \in Ids |-> [r \in Ids |->
                IF e \in Near /\ r \in Others(e)
                  THEN Established(e = Polite) ELSE NoPeer]]
  /\ chain = [e \in Ids |-> [r \in Ids |-> <<>>]]
  /\ iceQueue = [e \in Ids |-> [r \in Ids |-> <<>>]]
  /\ timers = [e \in Ids |-> [r \in Ids |->
                 IF e \in Near /\ r \in Others(e) THEN 1 ELSE 0]]
  /\ out = [e \in Ids |-> <<>>]
  /\ localAudioTrack = [e \in Ids |-> "null"]
  /\ localVideoTrack = [e \in Ids |-> "null"]
  /\ subscriptions = [e \in Ids |-> IF e \in Near THEN 1 ELSE 0]
  /\ signaling = [e \in Ids |-> IF e \in Near THEN Connected ELSE Unconnected]
  /\ isNameUpdated = [e \in Ids |-> e \in Near]
  /\ media = [e \in Ids |-> <<>>]
  /\ liveTracks = [e \in Ids |-> {}]
  /\ nTracks = [e \in Ids |-> 0]
  /\ nEvents = 0
  /\ nCand = 0
  /\ delivered = [e \in Ids |-> <<>>]
  /\ glare = FALSE

\* An offer of e's own toward r is under way or outstanding.
Offering(e, r) == peers[e][r].makingOffer \/ peers[e][r].sig = "have-local-offer"

\* Envelopes of a type addressed to r in a socket buffer or a history.
Count(seq, type, r) ==
  Cardinality({k \in DOMAIN seq : seq[k].type = type /\ seq[k].to = r})

\* Both ends have requested an offer toward the other and neither has been
\* handed the other's offer yet.
GlareNow ==
  /\ Offering(Impolite, Polite) /\ Offering(Polite, Impolite)
  /\ \A e \in Ids : Count(delivered[e], "offer", e) = 0

Seen == glare' = (glare \/ GlareNow')

PairTimer == \E e \in Ids : TimerFires(e) /\ UNCHANGED delivered /\ Seen
PairSettle == \E e \in Ids : Settle(e) /\ UNCHANGED delivered /\ Seen
PairIce == \E e \in Ids : IceGathered(e) /\ UNCHANGED delivered /\ Seen
PairDeliver == \E e \in Ids : Deliver(e) /\ Seen

NextPair == PairTimer \/ PairSettle \/ PairIce \/ PairDeliver

SpecPair == InitPair /\ [][NextPair]_vars

\* A timer that is due fires, a pending call of a connection settles and
\* the relay hands on what it holds: the event loop and the relay do not
\* stall.  Candidate gathering is not owed.
FairPair ==
  SpecPair /\ WF_vars(PairTimer) /\ WF_vars(PairSettle) /\ WF_vars(PairDeliver)

\* Two Dashboards that were both welcomed as impolite, each holding an
\* established session with the other, and each with two renegotiate timers
\* pending: nothing in the Dashboard makes the two roles differ.
InitImpolitePair ==
  /\ myServerChan = [e \in Ids |-> e]
  /\ myPolite = [e \in Ids |-> FALSE]
  /\ participantsMap =
       [e \in Ids |->
          IF e \in Near
            THEN <<MakeLocalParticipant,
                   [NewParticipant(CHOOSE r \in Others(e) : TRUE) EXCEPT !.name = "ann"]>>
            ELSE <<>>]
  /\ peers = [e \in Ids |-> [r \in Ids |->
                IF e \in Near /\ r \in Others(e) THEN Established(FALSE) ELSE NoPeer]]
  /\ chain = [e \in Ids |-> [r \in Ids |-> <<>>]]
  /\ iceQueue = [e \in Ids |-> [r \in Ids |-> <<>>]]
  /\ timers = [e \in Ids |-> [r \in Ids |->
                 IF e \in Near /\ r \in Others(e) THEN 2 ELSE 0]]
  /\ out = [e \in Ids |-> <<>>]
  /\ localAudioTrack = [e \in Ids |-> "null"]
  /\ localVideoTrack = [e \in Ids |-> "null"]
  /\ subscriptions = [e \in Ids |-> IF e \in Near THEN 1 ELSE 0]
  /\ signaling = [e \in Ids |-> IF e \in Near THEN Connected ELSE Unconnected]
  /\ isNameUpdated = [e \in Ids |-> e \in Near]
  /\ media = [e \in Ids |-> <<>>]
  /\ liveTracks = [e \in Ids |-> {}]
  /\ nTracks = [e \in Ids |-> 0]
  /\ nEvents = 0
  /\ nCand = 0
  /\ delivered = [e \in Ids |-> <<>>]
  /\ glare = FALSE

SpecImpolitePair == InitImpolitePair /\ [][NextPair]_vars

(* ------------------- one Dashboard in a room of three ------------------- *)
MaxMedia == 2       \* acquisitions pending at once, and tracks acquired per run

\* A step of the local Dashboard that counts as an event of the run.
Event(d) ==
  /\ nEvents < MaxEvents
  /\ nEvents' = nEvents + 1
  /\ Commit(Local, d)
  /\ UNCHANGED nCand

\* A step of the local Dashboard that follows from earlier events.
Internal(d) == Commit(Local, d) /\ UNCHANGED <<nEvents, nCand>>

\* The relay sends a roster (of one row) or a join notice.
RoomRoster(rows) ==
  \E row \in rows, type \in {"participants", "participant_joined"} :
    Receive(Local, [Msg(type) EXCEPT !.rows = <<row>>]) /\ UNCHANGED nCand

\* The relay sends an update, which may carry cam.
RoomUpdated(rows) ==
  \E row \in rows, c \in {Absent, "on", "off"} :
    Receive(Local, [Msg("participant_updated") EXCEPT
                      !.rows = <<[row EXCEPT !.cam = c]>>])
      /\ UNCHANGED nCand

RoomLeft(R) ==
  \E r \in R :
    Receive(Local, [Msg("participant_left") EXCEPT !.channel = r]) /\ UNCHANGED nCand

RoomOffer(R) ==
  \E r \in R :
    Receive(Local, [Msg("offer") EXCEPT !.from = r]) /\ UNCHANGED nCand

\* pc.ontrack fires on a session whose remote description is set.
TrackArrives ==
  \E r \in Ids, kind \in {"audio", "video"} :
    /\ peers[Local][r].live
    /\ HasRemoteDescription(peers[Local][r])
    /\ Internal(OnTrack(D(Local), r, kind))

ToggleMicClicked == isNameUpdated[Local] /\ Event(ToggleMic(D(Local)))

ToggleCamClicked == isNameUpdated[Local] /\ Event(ToggleCam(D(Local)))

ShareScreenClicked == isNameUpdated[Local] /\ Event(ShareScreen(D(Local)))

MediaResolves ==
  \E k \in DOMAIN media[Local] :
    /\ nTracks[Local] < MaxMedia
    /\ Internal(MediaResolved(D(Local), k))

MediaRejects ==
  \E k \in DOMAIN media[Local] : Internal(MediaRejected(D(Local), k))

TrackEnds ==
  \E tr \in liveTracks[Local] : Internal(TrackEnded(D(Local), tr))

Destroyed == Event(NgOnDestroy(D(Local)))

\* The Dashboard has joined (joinRoom) and was welcomed under its id: two
\* events of the run are spent.
Joined(polite) ==
  /\ myServerChan = [e \in Ids |-> IF e = Local THEN Local ELSE NoChan]
  /\ myPolite = [e \in Ids |-> IF e = Local THEN polite ELSE TRUE]
  /\ participantsMap =
       [e \in Ids |-> IF e = Local THEN <<MakeLocalParticipant>> ELSE <<>>]
  /\ peers = [e \in Ids |-> [r \in Ids |-> NoPeer]]
  /\ chain = [e \in Ids |-> [r \in Ids |-> <<>>]]
  /\ iceQueue = [e \in Ids |-> [r \in Ids |-> <<>>]]
  /\ timers = [e \in Ids |-> [r \in Ids |-> 0]]
  /\ out = [e \in Ids |-> <<>>]
  /\ localAudioTrack = [e \in Ids |-> "null"]
  /\ localVideoTrack = [e \in Ids |-> "null"]
  /\ subscriptions = [e \in Ids |-> IF e = Local THEN 1 ELSE 0]
  /\ signaling = [e \in Ids |-> IF e = Local THEN Connected ELSE Unconnected]
  /\ isNameUpdated = [e \in Ids |-> e = Local]
  /\ media = [e \in Ids |-> <<>>]
  /\ liveTracks = [e \in Ids |-> {}]
  /\ nTracks = [e \in Ids |-> 0]
  /\ nEvents = 2
  /\ nCand = 0
  /\ delivered = [e \in Ids |-> <<>>]
  /\ glare = FALSE

\* The room: A with the remote endpoints B and C.  B is ann; C is ann as
\* well, or bob.  Sessions come from roster rows and inbound offers and
\* offer through their renegotiate timers; answers and the
\* negotiationneeded callback, which start nothing the registry sees, are
\* left to Spec.
Remotes == Ids \ {Local}
RosterRows == {Row("B", "ann"), Row("C", "ann"), Row("C", "bob")}

NextRoom ==
  \/ NoPair /\ RelayTakes(Local)
  \/ Quiet /\ NoPair /\ LeaveCall(Local)
  \/ Quiet /\ NoPair /\ Destroyed
  \/ Quiet /\ NoPair /\ RoomRoster(RosterRows)
  \/ Quiet /\ NoPair /\ RoomUpdated(RosterRows)
  \/ Quiet /\ NoPair /\ RoomLeft(Remotes)
  \/ Quiet /\ NoPair /\ RoomOffer(Remotes)
  \/ Quiet /\ NoPair /\ TrackArrives
  \/ Quiet /\ NoPair /\ TimerFires(Local)
  \/ Quiet /\ NoPair /\ Settle(Local)

SpecRoom == Joined(FALSE) /\ [][NextRoom]_vars

\* The registry alone: A with B and C.  B, who is ann, is known from
\* updates, which also carry a raised or lowered hand and a gaze, and calls
\* in with an offer; C joins as bob and may announce itself as ann.  The
\* renegotiate timer of the session with C, which the registry does not
\* see, stays pending.
Profiles ==
  {[cam |-> Absent, handRaised |-> Absent, gaze |-> Absent],
   [cam |-> "on", handRaised |-> "true", gaze |-> "left"],
   [cam |-> "off", handRaised |-> "false", gaze |-> Absent]}

RoomAnnounces(rows) ==
  \E row \in rows, p \in Profiles :
    Receive(Local, [Msg("participant_updated") EXCEPT
                      !.rows = <<[row EXCEPT !.cam = p.cam,
                                             !.handRaised = p.handRaised,
                                             !.gaze = p.gaze]>>])
      /\ UNCHANGED nCand

NextRegistry ==
  \/ NoPair /\ RelayTakes(Local)
  \/ Quiet /\ NoPair /\ RoomRoster({Row("C", "bob")})
  \/ Quiet /\ NoPair /\ RoomAnnounces({Row("B", "ann"), Row("C", "ann")})
  \/ Quiet /\ NoPair /\ RoomOffer({"B"})
  \/ Quiet /\ NoPair /\ TrackArrives
  \/ Quiet /\ NoPair /\ Settle(Local)

SpecRegistry == Joined(FALSE) /\ [][NextRegistry]_vars

\* The local media controls: A with the one remote endpoint B.
MediaRows == {Row("B", "ann")}

NextMedia ==
  \/ NoPair /\ RelayTakes(Local)
  \/ Quiet /\ NoPair /\ JoinRoom(Local)
  \/ Quiet /\ NoPair /\ LeaveCall(Local)
  \/ Quiet /\ NoPair /\ RoomRoster(MediaRows)
  \/ Quiet /\ NoPair /\ RoomUpdated(MediaRows)
  \/ Quiet /\ NoPair /\ RoomOffer({"B"})
  \/ Quiet /\ NoPair /\ TrackArrives
  \/ Quiet /\ NoPair /\ ToggleMicClicked
  \/ Quiet /\ NoPair /\ ToggleCamClicked
  \/ Quiet /\ NoPair /\ ShareScreenClicked
  \/ Quiet /\ NoPair /\ MediaResolves
  \/ Quiet /\ NoPair /\ MediaRejects
  \/ Quiet /\ NoPair /\ TrackEnds
  \/ Quiet /\ NoPair /\ TimerFires(Local)
  \/ Quiet /\ NoPair /\ NegotiationNeeded(Local)
  \/ Quiet /\ NoPair /\ Settle(Local)

SpecMedia == Joined(FALSE) /\ [][NextMedia]_vars

\* Calls that fail: A, polite or impolite, with B and C.  Sessions come from
\* roster rows and inbound offers; offers, answers and candidates arrive
\* from either; the call a connection is waiting for may reject.
Rejects ==
  \E r \in Ids : chain[Local][r] # <<>> /\ Event(Reject(D(Local), r))

FromRemote(type) ==
  \E r \in Remotes :
    Receive(Local, [Msg(type) EXCEPT !.from = r]) /\ UNCHANGED nCand

CandidateFromRemote ==
  /\ nCand < MaxCand
  /\ nCand' = nCand + 1
  /\ \E r \in Remotes :
       Receive(Local, [Msg("ice_candidate") EXCEPT !.from = r, !.cand = nCand + 1])

FaultyRows == {Row("B", "ann"), Row("C", "bob")}

NextFaulty ==
  \/ NoPair /\ RelayTakes(Local)
  \/ Quiet /\ NoPair /\ RoomRoster(FaultyRows)
  \/ Quiet /\ NoPair /\ FromRemote("offer")
  \/ Quiet /\ NoPair /\ FromRemote("answer")
  \/ Quiet /\ NoPair /\ CandidateFromRemote
  \/ Quiet /\ NoPair /\ TimerFires(Local)
  \/ Quiet /\ NoPair /\ Settle(Local)
  \/ Quiet /\ NoPair /\ Rejects

SpecFaulty == (\E p \in BOOLEAN : Joined(p)) /\ [][NextFaulty]_vars

\* The SignalingService of one Dashboard and its sockets.  joinRoom
\* connects, ngOnDestroy disconnects; a socket opens, fails (its error event
\* is followed by its close event) or is closed by the server; a close
\* event and a reconnect timer that is due are delivered by the event loop.
Sockets == DOMAIN signaling[Local].sockets
ReadyState(i) == signaling[Local].sockets[i].readyState

InCall == isNameUpdated[Local] /\ HasYou(D(Local))

SetReadyState(s, i, state) == [s EXCEPT !.sockets[i].readyState = state]

SocketOpens ==
  \E i \in Sockets :
    /\ ReadyState(i) = "CONNECTING"
    /\ Internal([D(Local) EXCEPT !.signaling = SetReadyState(@, i, "OPEN")])

SocketErrors ==
  \E i \in Sockets :
    /\ ReadyState(i) \in {"CONNECTING", "OPEN"}
    /\ Event([D(Local) EXCEPT
                !.signaling = SetReadyState(OnError(@), i, "CLOSING")])

ServerCloses ==
  \E i \in Sockets :
    /\ ReadyState(i) = "OPEN"
    /\ Event([D(Local) EXCEPT !.signaling = SetReadyState(@, i, "CLOSING")])

SocketCloses ==
  \E i \in Sockets :
    /\ ReadyState(i) = "CLOSING"
    /\ Internal([D(Local) EXCEPT
                   !.signaling = OnClose(SetReadyState(@, i, "CLOSED"))])

ReconnectFires ==
  /\ signaling[Local].reconnects > 0
  /\ Internal([D(Local) EXCEPT
                 !.signaling = Reconnect([@ EXCEPT !.reconnects = @ - 1])])

NextSignaling ==
  \/ NoPair /\ RelayTakes(Local)
  \/ NoPair /\ JoinRoom(Local)
  \/ NoPair /\ InCall /\ LeaveCall(Local)
  \/ NoPair /\ InCall /\ Destroyed
  \/ NoPair /\ SocketOpens
  \/ NoPair /\ SocketErrors
  \/ NoPair /\ ServerCloses
  \/ NoPair /\ SocketCloses
  \/ NoPair /\ ReconnectFires

SpecSignaling == Init /\ [][NextSignaling]_vars

\* Rows that carry the local id: A joins, is welcomed (or not yet), and the
\* relay announces A itself, before or after the welcome, besides B.  The
\* history `delivered` lists the announcements of A's own id.
SelfRow == Row(Local, "ann")

SelfAnnounced ==
  \E type \in {"participants", "participant_joined", "participant_updated"},
     c \in {Absent, "on"} :
    /\ Receive(Local, [Msg(type) EXCEPT !.rows = <<[SelfRow EXCEPT !.cam = c]>>])
    /\ delivered' = [delivered EXCEPT ![Local] = Append(@, Envelope(type, Local, 0))]
    /\ UNCHANGED <<glare, nCand>>

NextSelf ==
  \/ NoPair /\ RelayTakes(Local)
  \/ Quiet /\ NoPair /\ JoinRoom(Local)
  \/ Quiet /\ NoPair /\ Welcome(Local)
  \/ Quiet /\ SelfAnnounced
  \/ Quiet /\ NoPair /\ RoomRoster({Row("B", "ann")})
  \/ Quiet /\ NoPair /\ TimerFires(Local)
  \/ Quiet /\ NoPair /\ Settle(Local)

SpecSelf == Init /\ [][NextSelf]_vars

\* One name under two ids: A with B and C, who both announce themselves as
\* ann in rosters and join notices; sessions offer through their timers and
\* a participant may leave.
NameRows == {Row("B", "ann"), Row("C", "ann")}

NextNames ==
  \/ NoPair /\ RelayTakes(Local)
  \/ Quiet /\ NoPair /\ RoomRoster(NameRows)
  \/ Quiet /\ NoPair /\ RoomLeft(Remotes)
  \/ Quiet /\ NoPair /\ TimerFires(Local)
  \/ Quiet /\ NoPair /\ Settle(Local)

SpecNames == Joined(FALSE) /\ [][NextNames]_vars

(* ============================== claims ================================== *)
Tasks(e, r, kind) == {k \in DOMAIN chain[e][r] : chain[e][r][k].kind = kind}

Busy(st) == st.makingOffer \/ st.sig # "stable"

\* C1: at most one outbound offer is outstanding per session.  A
\* request_offer (renegotiate, onnegotiationneeded) made while makingOffer is
\* set or the signaling state is not stable changes nothing of the Dashboard
\* and starts no offer; at most one offer is being made at a time; and an
\* offer envelope is emitted only by a step that leaves a state with no
\* local offer outstanding.
C1_RequestWhileBusyIsNoOp ==
  \A r \in Ids :
    LET st == peers[Local][r] IN
    (st.live /\ Busy(st)) =>
       /\ Renegotiate(D(Local), r) = D(Local)
       /\ OnNegotiationNeeded(D(Local), r) =
            [D(Local) EXCEPT !.peers[r].negNeeded = FALSE]
       /\ Cardinality(Tasks(Local, r, "reneg")) <= 1
       /\ Tasks(Local, r, "reneg") # {} => st.makingOffer /\ st.sig # "have-local-offer"

C1_OneOfferOutstanding ==
  [][ /\ C1_RequestWhileBusyIsNoOp
      /\ \A r \in Ids :
           Count(out'[Local], "offer", r) > Count(out[Local], "offer", r) =>
             /\ peers[Local][r].sig # "have-local-offer"
             /\ peers'[Local][r].sig = "have-local-offer"
             /\ Count(out'[Local], "offer", r) = Count(out[Local], "offer", r) + 1
    ]_vars

\* C1 witness: a session created from a roster row has seen both its timer
\* request and its negotiationneeded request, and holds exactly the one
\* unanswered offer.
C1_Witness ==
  \E r \in Ids :
    /\ Has(participantsMap[Local], r)
    /\ peers[Local][r].live
    /\ timers[Local][r] = 0
    /\ ~peers[Local][r].negNeeded
    /\ peers[Local][r].sig = "have-local-offer"
    /\ ~HasRemoteDescription(peers[Local][r])

(* ------------------------- glare (two Dashboards) ----------------------- *)
\* Envelopes of a type that e has emitted toward the other end so far.
Emitted(e, type) ==
  LET r == CHOOSE x \in Others(e) : TRUE IN
  Count(delivered[r], type, r) + Count(out[e], type, r)

\* Nothing is pending anywhere: no timer, no suspended handler, no envelope.
PairQuiet ==
  /\ \A e, r \in Ids : chain[e][r] = <<>> /\ timers[e][r] = 0
  /\ \A e \in Ids : out[e] = <<>>

C2_Converged ==
  /\ peers[Impolite][Polite].sig = "stable"
  /\ peers[Polite][Impolite].sig = "stable"
  /\ ~peers[Impolite][Polite].makingOffer
  /\ Emitted(Impolite, "answer") + Emitted(Polite, "answer") = 1
  /\ \A e, r \in Ids : \A k \in DOMAIN chain[e][r] : chain[e][r][k].kind = "ice"

\* C2: when the impolite A and the polite B both request an offer toward
\* each other before either is handed the other's offer, then under in-order
\* delivery neither end emits a second offer, at most one answer is ever
\* emitted, and the two sessions reach, and then stay in, the state where
\* both are stable, exactly one answer was emitted in total and A's
\* makingOffer flag is false.
C2_GlareConverges ==
  /\ [](glare => /\ Emitted(Impolite, "offer") <= 1
                 /\ Emitted(Polite, "offer") <= 1
                 /\ Emitted(Impolite, "answer") + Emitted(Polite, "answer") <= 1)
  /\ (glare ~> []C2_Converged)

\* C2 witness: both offers were emitted and crossed, and the exchange is over.
C2_Witness ==
  /\ glare /\ PairQuiet /\ C2_Converged
  /\ Emitted(Impolite, "offer") = 1
  /\ Emitted(Polite, "offer") = 1

\* C3 as stated: in a glare the single answer is emitted by the impolite A
\* (the discarded offer being A's own).
C3_AnswerByImpolite ==
  (glare /\ PairQuiet) =>
     /\ Emitted(Impolite, "answer") = 1
     /\ Emitted(Polite, "answer") = 0

\* C3: in a glare between the impolite A and the polite B the offer that is
\* discarded is the polite side's: A never accepts an offer (it runs no offer
\* handler past the ignore test, never holds a remote offer and emits no
\* answer), and once the exchange is over A's offer is the one that was
\* emitted and answered, by the single answer, which B emitted.
C3_PoliteOfferDiscarded ==
  glare =>
     /\ Emitted(Impolite, "answer") = 0
     /\ Tasks(Impolite, Polite, "offer") = {}
     /\ peers[Impolite][Polite].sig # "have-remote-offer"
     /\ PairQuiet => /\ Emitted(Impolite, "offer") = 1
                     /\ Emitted(Polite, "answer") = 1
                     /\ peers[Polite][Impolite].sig = "stable"

\* C3 witness: B's offer reached A and was ignored there; B answered A's.
C3_Witness ==
  /\ glare /\ PairQuiet
  /\ Count(delivered[Impolite], "offer", Impolite) = 1
  /\ peers[Impolite][Polite].ignoreOffer
  /\ Emitted(Polite, "answer") = 1
  /\ Emitted(Impolite, "answer") = 0


(* ------------------------------ candidates ------------------------------ *)
\* Candidates are numbered in arrival order.
InArrivalOrder(s) == \A i, j \in DOMAIN s : i < j => s[i] < s[j]

\* Only candidate handlers are pending on e's connection to r.
Flushed(e, r) == \A k \in DOMAIN chain[e][r] : chain[e][r][k].kind = "ice"

\* C4: no remote candidate is lost or misapplied.  With the handler
\* subscribed once, the candidates a live session has applied are each
\* applied once and in the order they arrived, whatever the interleaving of
\* their arrival with the offer/answer handling, and the peer's buffer is
\* empty once the session is stable with its remote description and the
\* flush has finished.
C4_AppliedOnceInArrivalOrder ==
  \A r \in Ids :
    (peers[Local][r].live /\ subscriptions[Local] = 1) =>
       /\ InArrivalOrder(peers[Local][r].applied)
       /\ (peers[Local][r].sig = "stable" /\ peers[Local][r].curRemote
             /\ Flushed(Local, r)) => iceQueue[Local][r] = <<>>

(* ------------------------------ offers ---------------------------------- *)
OfferMsg(e, r, to) == [Msg("offer") EXCEPT !.from = r, !.to = to]

\* C5: an offer that reaches an impolite session during a collision
\* (makingOffer set, or signaling state not stable) is ignored.  Whatever the
\* addressing and however many times the handler is subscribed, the
\* Dashboard after the handler equals the Dashboard before it in everything
\* but the session's ignoreOffer flag: signaling state, descriptions, sender
\* bindings, candidate buffer, pending calls and outbound envelopes are the
\* same (no answer is emitted, nothing is left to fail later), and the flag
\* is set when the envelope is for this endpoint.
C5_ImpoliteCollisionIgnored ==
  \A r \in Others(Local), to \in Ids \cup {NoChan} :
    LET st == peers[Local][r]
        d == Dispatch(D(Local), OfferMsg(Local, r, to), subscriptions[Local]) IN
    (st.live /\ ~st.polite /\ Busy(st) /\ subscriptions[Local] > 0) =>
       /\ [d EXCEPT !.peers[r].ignoreOffer = st.ignoreOffer] = D(Local)
       /\ MessageIsForMe(D(Local), to) => d.peers[r].ignoreOffer

\* C5 witness: an impolite session with its own offer outstanding has
\* ignored an offer.
C5_Witness ==
  \E r \in Others(Local) :
    /\ peers[Local][r].live /\ ~peers[Local][r].polite
    /\ peers[Local][r].sig = "have-local-offer"
    /\ peers[Local][r].ignoreOffer
    /\ Tasks(Local, r, "offer") = {}

Last(s) == s[Len(s)]

\* What the claim expects of the awaited call at the head of the chain when
\* it belongs to an offer handler: the call succeeds and the handler goes on
\* to its next step.
C6_Step(e, r) ==
  LET t == Head(chain[e][r])
      st == peers[e][r]
      d == Resume(D(e), r) IN
  CASE t.step = "rollback" ->
         /\ d.peers[r].sig = "stable"
         /\ d.chain[r] # <<>> /\ Last(d.chain[r]).step = "setRemoteOffer"
    [] t.step = "setRemoteOffer" ->
         /\ st.sig # "have-local-offer"
         /\ d.peers[r].sig = "have-remote-offer"
         /\ d.peers[r].audioSender = localAudioTrack[e]
         /\ d.peers[r].videoSender = localVideoTrack[e]
         /\ d.chain[r] # <<>> /\ Last(d.chain[r]).step = "createAnswer"
    [] t.step = "createAnswer" ->
         d.chain[r] # <<>> /\ Last(d.chain[r]).step = "setLocalAnswer"
    [] t.step = "setLocalAnswer" ->
         /\ d.peers[r].sig = "stable"
         /\ d.out = Append(out[e], Envelope("answer", r, 0))
         /\ iceQueue[e][r] # <<>> =>
              d.chain[r] # <<>> /\ Last(d.chain[r]).step = "flush"
    [] OTHER -> TRUE

\* C6: a polite session that is handed an offer during a collision first
\* rolls its local offer back and only then applies the remote offer, and
\* every accepted offer goes through: apply the remote description, re-bind
\* the local tracks to the senders, create the answer, reach stable, emit one
\* answer to the offerer, flush the pending candidates.
C6_RollbackThenOrderedSteps ==
  /\ \A e \in Ids : \A r \in Others(e) :
       (peers[e][r].live /\ peers[e][r].polite /\ peers[e][r].sig # "stable") =>
          Last(OnOffer(D(e), OfferMsg(e, r, e)).chain[r]).step = "rollback"
  /\ \A e, r \in Ids :
       (chain[e][r] # <<>> /\ Head(chain[e][r]).kind = "offer") => C6_Step(e, r)


(* ------------------------------ answers --------------------------------- *)
AnswerMsg(e, r, to) == [Msg("answer") EXCEPT !.from = r, !.to = to]

\* The awaited setRemoteDescription(answer) is the next call to settle.
HeadAnswer(e, r) ==
  chain[e][r] # <<>> /\ Head(chain[e][r]).step = "setRemoteAnswer"

IceMsg(e, r, c) == [Msg("ice_candidate") EXCEPT !.from = r, !.to = e, !.cand = c]

\* C8: a candidate that arrives for a session with a remote description is
\* handed to the connection at once (addIceCandidate is the handler's call,
\* the buffer is not touched, and the call adds the candidate to those the
\* connection has applied); otherwise, with no session or no remote
\* description, it is appended to the tail of that peer's buffer and not
\* applied.  Either way the candidates already buffered stay, in order.
C8_ApplyOrAppend ==
  \A r \in Others(Local) :
    LET st == peers[Local][r]
        c == nCand + 1
        d == OnIceCandidate([D(Local) EXCEPT !.myServerChan = Local],
                            IceMsg(Local, r, c)) IN
    /\ (st.live /\ HasRemoteDescription(st)) =>
         /\ d.iceQueue = iceQueue[Local]
         /\ d.peers = peers[Local]
         /\ d.chain[r] = Append(chain[Local][r],
                                [Task("ice", "addIce") EXCEPT !.cand = c])
    /\ ~(st.live /\ HasRemoteDescription(st)) =>
         /\ d.iceQueue[r] = Append(iceQueue[Local][r], c)
         /\ d.peers = peers[Local]
         /\ d.chain = chain[Local]
    /\ (chain[Local][r] # <<>> /\ Head(chain[Local][r]).step = "addIce"
          /\ HasRemoteDescription(st)) =>
         LET d2 == Resume(D(Local), r) IN
         /\ d2.peers[r].applied = Append(st.applied, Head(chain[Local][r]).cand)
         /\ d2.iceQueue = iceQueue[Local]

\* C8 witness: a candidate is buffered and a later one, which arrived with
\* the remote description set, is at the connection.
C8_Witness ==
  \E r \in Others(Local) :
    /\ peers[Local][r].live
    /\ HasRemoteDescription(peers[Local][r])
    /\ iceQueue[Local][r] # <<>>
    /\ chain[Local][r] # <<>> /\ Head(chain[Local][r]).step = "addIce"


(* ------------------------------- flush ---------------------------------- *)
\* The buffer of r lost candidates in this step.
Drained(r) ==
  \E k \in DOMAIN iceQueue[Local][r] :
    k \notin DOMAIN iceQueue'[Local][r] \/ iceQueue'[Local][r][k] # iceQueue[Local][r][k]

\* C9: candidates leave a peer's buffer only while that peer has a live
\* session with a remote description applied.  A flushIce called with no
\* session or no remote description starts no flush and leaves the buffer as
\* it is; and every step in which a buffer loses candidates is the end of a
\* flush on a live session whose remote description is set, empties the
\* buffer, and leaves each of its candidates applied to that session.
C9_DrainedOnlyWithRemoteDescription ==
  [][ /\ \A r \in Ids :
           LET st == peers[Local][r]
               f == FlushIce(D(Local), r, Task("answer", "setRemoteAnswer")) IN
           (~st.live \/ ~HasRemoteDescription(st)) =>
              /\ f.iceQueue = iceQueue[Local]
              /\ f.chain = chain[Local]
      /\ \A r \in Ids :
           Drained(r) =>
              /\ peers[Local][r].live /\ peers[Local][r].curRemote
              /\ peers'[Local][r].live /\ peers'[Local][r].curRemote
              /\ chain[Local][r] # <<>> /\ Head(chain[Local][r]).step = "flush"
              /\ iceQueue'[Local][r] = <<>>
              /\ \A k \in DOMAIN iceQueue[Local][r] :
                   \E j \in DOMAIN peers'[Local][r].applied :
                     peers'[Local][r].applied[j] = iceQueue[Local][r][k]
    ]_vars

\* C9 witness: a flush on a live session with its remote description set
\* has applied the first buffered candidate and is at the last one.
C9_Witness ==
  \E r \in Ids :
    LET st == peers[Local][r] IN
    /\ st.live /\ st.curRemote
    /\ chain[Local][r] # <<>>
    /\ Head(chain[Local][r]).step = "flush"
    /\ Head(chain[Local][r]).i = 2
    /\ Len(iceQueue[Local][r]) = 2
    /\ st.applied # <<>> /\ Last(st.applied) = iceQueue[Local][r][1]

(* ------------------------------- close ---------------------------------- *)
\* Every pending call of e's connection to r settles, in order.
RECURSIVE RunToEnd(_, _)
RunToEnd(d, r) == IF d.chain[r] = <<>> THEN d ELSE RunToEnd(Resume(d, r), r)

\* The session with r is closed by participant_left and a later offer from r
\* creates the next session, which runs until nothing is pending.
NextSession(r) ==
  RunToEnd(OnOffer(OnParticipantLeft(D(Local), r), OfferMsg(Local, r, NoChan)), r)

\* C10: closing a peer session, on participant_left or when the call ends
\* locally, is possible in any state and leaves no candidate queued for that
\* remote id: what was buffered for the closed session is discarded and is
\* not applied to a later session created for the same id.
C10_CloseDiscardsQueued ==
  \A r \in Others(Local) :
    peers[Local][r].live =>
       /\ ~OnParticipantLeft(D(Local), r).peers[r].live
       /\ OnParticipantLeft(D(Local), r).iceQueue[r] = <<>>
       /\ ~LeaveCallD(D(Local)).peers[r].live
       /\ LeaveCallD(D(Local)).iceQueue[r] = <<>>
       /\ \A k \in DOMAIN iceQueue[Local][r] :
            \A j \in DOMAIN NextSession(r).peers[r].applied :
              NextSession(r).peers[r].applied[j] # iceQueue[Local][r][k]

(* ------------------------ answer after a close -------------------------- *)
\* C11: when a session is closed and removed while its own offer is
\* outstanding (have-local-offer), by a participant_left for that id or by
\* leaveCall, an answer that arrives from that id afterwards is dropped:
\* whatever its addressing, the Dashboard after the handler is the Dashboard
\* before it (no session for the id, nothing handed to a connection, no call
\* left pending that could apply or fail later, no envelope emitted).
C11_AnswerAfterCloseDropped ==
  \A r \in Others(Local) :
    LET st == peers[Local][r]
        left == OnParticipantLeft(D(Local), r)
        ended == LeaveCallD(D(Local)) IN
    (st.live /\ st.sig = "have-local-offer" /\ subscriptions[Local] > 0) =>
       \A d \in {left, ended}, to \in Near \cup {NoChan} :
          LET after == Dispatch(d, AnswerMsg(Local, r, to), d.subscriptions) IN
          /\ ~d.peers[r].live
          /\ d.chain[r] = <<>>
          /\ after = d
          /\ RunToEnd(after, r) = d

\* C11 witness: a session whose own offer is outstanding and awaits its
\* answer, with nothing pending on the connection: the state in which the
\* removal and the late answer are taken.
C11_Witness ==
  \E r \in Others(Local) :
    /\ peers[Local][r].live
    /\ peers[Local][r].sig = "have-local-offer"
    /\ ~peers[Local][r].makingOffer
    /\ chain[Local][r] = <<>>
    /\ subscriptions[Local] > 0

(* ----------------------------- addressing ------------------------------- *)
\* An offer, answer or candidate envelope from r, addressed to `to`.
Addressed(type, r, to) ==
  [Msg(type) EXCEPT !.from = r, !.to = to, !.cand = nCand + 1]

Contact(r) ==
  {[Msg(type) EXCEPT !.rows = <<row>>] :
      type \in {"participants", "participant_joined"},
      row \in {x \in RosterRows : x.channel = r}}
    \cup {[Msg("offer") EXCEPT !.from = r]}

\* The local Dashboard after dispatching msg to every subscription.
Handled(msg) == Dispatch(D(Local), msg, subscriptions[Local])

\* The session with r is the same session after the step: its role is the
\* one it was created with and what the connection has applied is kept.
SameSession(r) ==
  /\ peers'[Local][r].polite = peers[Local][r].polite
  /\ peers[Local][r].curRemote => peers'[Local][r].curRemote
  /\ Len(peers[Local][r].applied) <= Len(peers'[Local][r].applied)
  /\ \A k \in DOMAIN peers[Local][r].applied :
       peers'[Local][r].applied[k] = peers[Local][r].applied[k]

\* What the handlers named by C13 do to the sessions map, in any state.
C13_Handlers ==
  \A r \in Remotes :
    LET st == peers[Local][r]
        left == Handled([Msg("participant_left") EXCEPT !.channel = r]) IN
    /\ subscriptions[Local] > 0 =>
          /\ \A msg \in Contact(r) :
               LET after == Handled(msg).peers[r] IN
               IF st.live THEN [after EXCEPT !.ignoreOffer = st.ignoreOffer] = st
               ELSE (msg.type = "offer" \/ ~Has(participantsMap[Local], r)) =>
                       after.live
          /\ left.peers = [peers[Local] EXCEPT ![r] = NoPeer]
    /\ LeaveCallD(D(Local)).peers = [x \in Ids |-> NoPeer]
    /\ NgOnDestroy(D(Local)).peers = [x \in Ids |-> NoPeer]

C14_RefreshStartsNoNegotiation ==
  /\ [](\A a, v \in {"null", TrackName(1)} :
          LET d == [D(Local) EXCEPT !.localAudioTrack = a, !.localVideoTrack = v]
              f == RefreshLocalPreview(d) IN
          /\ \A r \in Ids :
               /\ [f.peers[r] EXCEPT !.audioSender = d.peers[r].audioSender,
                                     !.videoSender = d.peers[r].videoSender]
                    = d.peers[r]
               /\ d.peers[r].live =>
                    f.peers[r].audioSender = a /\ f.peers[r].videoSender = v
          /\ f.chain = d.chain
          /\ f.timers = d.timers
          /\ f.out = d.out)
  /\ [][ Count(out'[Local], "offer", "B") > Count(out[Local], "offer", "B") =>
           /\ chain[Local]["B"] # <<>>
           /\ Head(chain[Local]["B"]).kind = "reneg"
           /\ Head(chain[Local]["B"]).step = "setLocalOffer"
           /\ D(Local)' = Resume(D(Local), "B")
       ]_vars

\* C14 witness: a session whose own offer is outstanding has its video
\* sender bound to the camera track acquired since: the re-binding went
\* through while the session could not renegotiate, and no offer is being
\* made.
C14_Witness ==
  \E r \in Remotes :
    /\ peers[Local][r].live
    /\ peers[Local][r].sig = "have-local-offer"
    /\ ~peers[Local][r].makingOffer
    /\ Tasks(Local, r, "reneg") = {}
    /\ localVideoTrack[Local] # "null"
    /\ peers[Local][r].videoSender = localVideoTrack[Local]

(* ------------------------------ videoOn --------------------------------- *)
\* The entries of the local Dashboard's registry.
Entries == {participantsMap[Local][k] : k \in DOMAIN participantsMap[Local]}

\* C15: videoOn is false whenever cam is off, for every participant of the
\* registry, the local one included, in every reachable state; and the
\* entry that a suspended toggleMic or toggleCam will write back obeys it
\* too.
C15_VideoOffWhenCamOff ==
  /\ \A p \in Entries : p.cam = "off" => ~p.videoOn
  /\ \A k \in DOMAIN media[Local] :
       media[Local][k].me.cam = "off" => ~media[Local][k].me.videoOn

\* C15 witness: a remote participant whose stream holds a video track was
\* announced with cam off and is shown with videoOn false, while the local
\* participant has the camera on.
C15_Witness ==
  /\ \E p \in Entries :
       ~p.isYou /\ p.stream.video # "null" /\ p.cam = "off" /\ ~p.videoOn
  /\ \E p \in Entries : p.isYou /\ p.cam = "on" /\ p.videoOn

\* C16: for every participant of the registry, videoOn equals (cam is on
\* and the stream holds an enabled video track), computed on the cam and
\* the stream that the entry stores.
C16_VideoOnIsDerived ==
  \A p \in Entries : p.videoOn = ComputeVideoOn(p.cam, p.stream)

(* --------------------------- one name, two ids -------------------------- *)
\* The registry after remote id y announces name n, in an update.
Announced(d, y, n) ==
  OnSignal(d, [Msg("participant_updated") EXCEPT !.rows = <<Row(y, n)>>])

\* C17: when a remote id y announces the display name of the entry first
\* seen under another id x, the entry stays under x and the registry has
\* as many entries as before, at the announcement and after a track then
\* arrives on the session with y.
C17_SecondIdNeverGrowsRegistry ==
  LET d == D(Local)
      pm == d.participantsMap IN
  \A x, y \in Remotes :
    (x # y /\ Has(pm, x) /\ ~Has(pm, y)) =>
      LET d1 == Announced(d, y, pm[IndexOf(pm, x)].name)
          pm1 == d1.participantsMap IN
      /\ Len(pm1) = Len(pm)
      /\ Has(pm1, x) /\ ~Has(pm1, y)
      /\ (d1.peers[y].live /\ HasRemoteDescription(d1.peers[y])) =>
           \A kind \in {"audio", "video"} :
             Len(OnTrack(d1, y, kind).participantsMap) = Len(pm)

(* ------------------------- upsert from a payload ------------------------ *)
\* The payloads of a remote participant: each of name, mic, cam, handRaised
\* and gaze given or left out.
Payloads ==
  {[channel |-> ch, name |-> n, mic |-> m, cam |-> c, handRaised |-> h, gaze |-> g] :
     ch \in Remotes, n \in {Absent, "ann", "bob"}, m \in {Absent, "on"},
     c \in {Absent, "on", "off"}, h \in {Absent, "true", "false"},
     g \in {Absent, "left"}}

\* The place in the registry of the entry a payload is about: the first
\* non-self entry of its name, else the entry of its id, else 0 (none yet).
Resolved(pm, row) ==
  LET byName == {k \in DOMAIN pm : pm[k].name = row.name /\ ~pm[k].isYou} IN
  IF byName # {} THEN CHOOSE k \in byName : \A j \in byName : k <= j
  ELSE IF Has(pm, row.channel) THEN IndexOf(pm, row.channel)
  ELSE 0

\* The value of a field after the merge: the payload's when it gives one,
\* else the previous one.
Field(given, before) == IF given # Absent THEN given ELSE before

\* The upsert of row into registry pm gave pm1: the entry the row is about
\* took every field the row gives and kept the others, its id and its
\* stream; every other entry is as it was.
Merged(pm, row, pm1) ==
  LET k == Resolved(pm, row)
      k1 == IF k = 0 THEN Len(pm) + 1 ELSE k
      e0 == IF k = 0 THEN NewParticipant(row.channel) ELSE pm[k] IN
  /\ Len(pm1) = (IF k = 0 THEN Len(pm) + 1 ELSE Len(pm))
  /\ \A j \in DOMAIN pm : j # k => pm1[j] = pm[j]
  /\ pm1[k1].channel = e0.channel
  /\ pm1[k1].name = Field(row.name, e0.name)
  /\ pm1[k1].mic = Field(row.mic, e0.mic)
  /\ pm1[k1].cam = Field(row.cam, e0.cam)
  /\ pm1[k1].gaze = Field(row.gaze, e0.gaze)
  /\ pm1[k1].handRaised =
       (IF row.handRaised = Absent THEN e0.handRaised ELSE row.handRaised = "true")
  /\ pm1[k1].stream = e0.stream

\* C18: an upsert from a remote payload merges: the fields the payload gives
\* take its values, the fields it leaves out keep the entry's previous
\* values, the stream is kept, no other entry changes, and nothing but the
\* registry changes.
C18_UpsertMergesFields ==
  LET d == D(Local) IN
  \A row \in Payloads :
    LET u == UpsertParticipantFromPayload(d, row) IN
    /\ Merged(d.participantsMap, row, u.participantsMap)
    /\ [u EXCEPT !.participantsMap = d.participantsMap] = d

\* C18 witness: the registry holds ann with a stream, a raised hand and a
\* gaze, and bob under another id: a payload naming ann resolves by name,
\* one naming nobody resolves by id, and there is another entry to keep.
C18_Witness ==
  /\ \E p \in Entries :
       p.name = "ann" /\ p.stream.some /\ p.cam = "on" /\ p.handRaised /\ p.gaze # ""
  /\ \E p \in Entries : p.name = "bob" /\ p.channel = "C"

(* --------------------------- calls that fail ---------------------------- *)
\* The awaited calls that create or apply a description.
DescriptionSteps ==
  {"createOffer", "setLocalOffer", "rollback", "setRemoteOffer", "createAnswer",
   "setLocalAnswer", "setRemoteAnswer"}

\* The session with r is negotiable: a request for an offer gets an offer
\* sent, and an offer from r gets an answer sent, once the calls settle.
Negotiable(d, r) ==
  /\ Count(RunToEnd(Renegotiate(d, r), r).out, "offer", r) > Count(d.out, "offer", r)
  /\ Count(RunToEnd(OnSignal(d, [Msg("offer") EXCEPT !.from = r]), r).out, "answer", r)
       > Count(d.out, "answer", r)

\* C19: when a call that creates or applies a description rejects, then
\* once the connection's calls have settled the session is still there,
\* makingOffer is false, the connection is stable and the session is
\* negotiable, whether it is polite or impolite.
C19_FailureRecovered ==
  LET d == D(Local) IN
  \A r \in Remotes :
    (d.chain[r] # <<>> /\ Head(d.chain[r]).step \in DescriptionSteps) =>
      LET q == RunToEnd(Reject(d, r), r) IN
      /\ q.peers[r].live
      /\ ~q.peers[r].makingOffer
      /\ q.peers[r].sig = "stable"
      /\ Negotiable(q, r)

(* ------------------------- errors stay with a peer ---------------------- *)
\* What the Dashboard may do next for peer x: handle an offer, an answer or
\* a candidate from x, whoever it is addressed to; request an offer toward
\* x; and, when a call of x's connection is pending, see it resolve or
\* reject.
Outcomes(d, x) ==
  {Dispatch(d, [Msg(type) EXCEPT !.from = x, !.to = to, !.cand = 9], d.subscriptions) :
     type \in {"offer", "answer", "ice_candidate"}, to \in {NoChan, Local, "C"}}
    \cup {Renegotiate(d, x)}
    \cup (IF d.chain[x] # <<>> THEN {Resume(d, x), Reject(d, x)} ELSE {})

\* C20: whatever the Dashboard does for peer x, with whatever end (glare,
\* a stale message, a call that fails, a drop for want of a session), the
\* session, role, sender bindings, pending calls and candidate buffer of
\* every other peer and the participant registry are as before.
C20_ErrorsStayWithOnePeer ==
  LET d == D(Local) IN
  \A x \in Remotes : \A after \in Outcomes(d, x) :
    /\ \A y \in Ids \ {x} :
         /\ after.peers[y] = d.peers[y]
         /\ after.chain[y] = d.chain[y]
         /\ after.iceQueue[y] = d.iceQueue[y]
    /\ after.participantsMap = d.participantsMap

\* C20 witness: an impolite Dashboard has its own offer outstanding toward
\* one peer (an offer from that peer is a collision and is ignored, an
\* answer while stable would be stale) while another peer has a session, a
\* registry entry and a buffered candidate.
C20_Witness ==
  \E x, y \in Remotes :
    /\ x # y
    /\ ~myPolite[Local]
    /\ peers[Local][x].live /\ peers[Local][x].sig = "have-local-offer"
    /\ peers[Local][y].live /\ iceQueue[Local][y] # <<>>
    /\ Has(participantsMap[Local], y)

(* ----------------------- envelopes for no session ----------------------- *)
\* C21: an answer or a candidate that arrives from a remote id with which
\* there is no session changes no state: no session is created and the
\* candidate buffer is as before.
C21_NoSessionEnvelopeDropped ==
  LET d == D(Local) IN
  \A r \in Others(Local), type \in {"answer", "ice_candidate"}, to \in {NoChan, Local} :
    (d.subscriptions > 0 /\ ~d.peers[r].live) =>
      Dispatch(d, [Msg(type) EXCEPT !.from = r, !.to = to, !.cand = 9],
               d.subscriptions) = d

(* ------------------------------- roles ---------------------------------- *)
\* C22: the role of a session is the Dashboard's role at the moment the
\* session is created and stays what it is for as long as the session
\* lives; a welcome, whatever role it carries, changes the role of no
\* session.
C22_RoleAssignedOnce ==
  /\ [](\A p \in BOOLEAN, ch \in Ids :
          OnWelcome(D(Local), [Msg("welcome") EXCEPT !.channel = ch, !.polite = p]).peers
            = peers[Local])
  /\ [][\A r \in Ids :
          /\ (peers[Local][r].live /\ peers'[Local][r].live) =>
               peers'[Local][r].polite = peers[Local][r].polite
          /\ (~peers[Local][r].live /\ peers'[Local][r].live) =>
               peers'[Local][r].polite = myPolite[Local]
       ]_vars

\* C22 witness: a session that was created as polite is still polite after
\* a welcome has made the Dashboard impolite.
C22_Witness ==
  \E r \in Ids :
    /\ peers[Local][r].live
    /\ peers[Local][r].polite
    /\ ~myPolite[Local]
    /\ myServerChan[Local] # NoChan

(* --------------------------- one step at a time ------------------------- *)
\* What may come in for peer r: an offer or an answer from r, or a request
\* for an offer toward r.
Transitions == {[h |-> "offer"], [h |-> "answer"], [h |-> "request"]}

Apply(d, r, tr) ==
  IF tr.h = "request" THEN Renegotiate(d, r)
  ELSE Dispatch(d, [Msg(tr.h) EXCEPT !.from = r], d.subscriptions)

\* C23: while a call that creates or applies a description is pending on
\* the connection with r, nothing else is processed for r before it
\* completes: what comes in meanwhile has the effect it would have had,
\* had it come in after the pending calls were through.
C23_SerializedPerPeer ==
  LET d == D(Local) IN
  \A r \in Remotes :
    (d.chain[r] # <<>> /\ Head(d.chain[r]).step \in DescriptionSteps) =>
      \A tr \in Transitions :
        LET now == RunToEnd(Apply(d, r, tr), r)
            later == RunToEnd(Apply(RunToEnd(d, r), r, tr), r) IN
        /\ now.peers[r] = later.peers[r]
        /\ now.iceQueue[r] = later.iceQueue[r]
        /\ now.out = later.out

(* ------------------------------ mic and cam ----------------------------- *)
\* C24: when a toggleMic completes, the local participant's cam, videoOn
\* and stream are what they were just before; when a toggleCam completes,
\* the local participant's mic is what it was just before; whatever other
\* toggles, screen shares and track endings came in between.
C24_TogglesKeepApart ==
  LET d == D(Local) IN
  HasYou(d) =>
    /\ You(ToggleMic(d)).cam = You(d).cam
    /\ You(ToggleMic(d)).videoOn = You(d).videoOn
    /\ You(ToggleMic(d)).stream = You(d).stream
    /\ You(ToggleCam(d)).mic = You(d).mic
    /\ \A k \in DOMAIN d.media :
         LET after == MediaResolved(d, k) IN
         /\ d.media[k].kind = "mic" =>
              /\ You(after).cam = You(d).cam
              /\ You(after).videoOn = You(d).videoOn
              /\ You(after).stream = You(d).stream
         /\ d.media[k].kind = "cam" => You(after).mic = You(d).mic

(* --------------------------- the buffer's size -------------------------- *)
\* n more candidates from r arrive, one envelope after the other (the
\* first half of them, then the rest).
RECURSIVE Feed(_, _, _)
Feed(d, r, n) ==
  IF n = 0 THEN d
  ELSE IF n = 1
    THEN Dispatch(d, [Msg("ice_candidate") EXCEPT !.from = r, !.cand = 9],
                  d.subscriptions)
  ELSE CHOOSE y \in {Feed(x, r, n - (n \div 2)) : x \in {Feed(d, r, n \div 2)}} : TRUE

\* C25: the candidate buffer of a peer holds at most 64 candidates: when
\* more arrive than the buffer may hold, they are dropped and the session
\* with that peer is closed, every other session staying as it is.
C25_BufferCapped ==
  LET d == D(Local)
      cap == 64 IN
  \A r \in Others(Local) :
    (d.subscriptions > 0 /\ ~HasRemoteDescription(d.peers[r])) =>
      LET full == Feed(d, r, cap + 1) IN
      /\ Len(full.iceQueue[r]) <= cap
      /\ ~full.peers[r].live
      /\ \A y \in Ids \ {r} : full.peers[y] = d.peers[y]

(* ----------------------- two impolite Dashboards ------------------------ *)
\* The other end of the pair.
Peer(e) == CHOOSE r \in Others(e) : TRUE

\* Both ends have their own offer outstanding and no answer is on its way:
\* none in a socket buffer, no handler at work on an offer or an answer.
BothOutstanding ==
  /\ \A e \in Near :
       /\ peers[e][Peer(e)].live
       /\ ~peers[e][Peer(e)].polite
       /\ peers[e][Peer(e)].sig = "have-local-offer"
       /\ Count(out[e], "answer", Peer(e)) = 0
       /\ \A k \in DOMAIN chain[e][Peer(e)] :
            chain[e][Peer(e)][k].kind \notin {"offer", "answer"}

\* C26: when two ends that are both impolite both have an offer outstanding,
\* a request for an offer changes nothing at either end, an offer from the
\* other end is ignored, and no step of either end or of the relay takes
\* either session out of have-local-offer.
C26_ImpolitePairStaysStuck ==
  /\ [](BothOutstanding =>
          \A e \in Near :
            LET d == D(e)
                r == Peer(e)
                after == Dispatch(d, [Msg("offer") EXCEPT !.from = r, !.to = e],
                                  d.subscriptions) IN
            /\ Renegotiate(d, r) = d
            /\ [after EXCEPT !.peers[r].ignoreOffer = d.peers[r].ignoreOffer] = d
            /\ after.peers[r].ignoreOffer)
  /\ [][BothOutstanding => BothOutstanding']_vars

\* C26 witness: both impolite ends sit in have-local-offer, each has been
\* handed the other's offer and has ignored it, and nothing is pending any
\* more: no timer, no call, no envelope.
C26_Witness ==
  /\ BothOutstanding
  /\ PairQuiet
  /\ \A e \in Near :
       /\ peers[e][Peer(e)].ignoreOffer
       /\ Count(delivered[e], "offer", e) > 0

(* ---------------------- disconnect and reconnection --------------------- *)
Svc == signaling[Local]

Live(state) == state \in {"CONNECTING", "OPEN"}

\* C27: disconnect() does not end reconnection.  A disconnect of a held
\* socket that is connecting or open leaves that socket closing, the
\* reference null and the room as it was; the close event of any socket, the
\* disconnected one included, schedules a reconnect; a reconnect that is due
\* creates a socket for the same room and holds it; the error handler of a
\* socket leaves the held socket closing or closed, and held, and the room
\* set, so that its close event schedules a reconnect as well.  So
\* once a room was joined it stays set, and the service never comes to rest:
\* a socket is connecting, open or closing, or a reconnect is pending.
C27_DisconnectKeepsReconnecting ==
  /\ [](Svc.sockets # <<>> =>
          /\ Svc.room = RoomName
          /\ \/ Svc.reconnects > 0
             \/ \E i \in Sockets : ReadyState(i) # "CLOSED"
          /\ Svc.ws # NoSocket =>
               /\ ~Live(OnError(Svc).sockets[Svc.ws].readyState)
               /\ OnError(Svc).ws = Svc.ws /\ OnError(Svc).room = Svc.room)
  /\ [][/\ (Svc.ws # NoSocket /\ Svc'.ws = NoSocket) =>
             /\ Svc'.room = Svc.room
             /\ Svc'.reconnects = Svc.reconnects
             /\ Live(ReadyState(Svc.ws)) => Svc'.sockets[Svc.ws].readyState = "CLOSING"
        /\ \A i \in Sockets :
             (ReadyState(i) = "CLOSING" /\ Svc'.sockets[i].readyState = "CLOSED") =>
               Svc'.reconnects = Svc.reconnects + 1
        /\ Svc'.reconnects < Svc.reconnects =>
             /\ Len(Svc'.sockets) = Len(Svc.sockets) + 1
             /\ Svc'.ws = Len(Svc'.sockets)
             /\ Svc'.sockets[Svc'.ws] = [readyState |-> "CONNECTING", room |-> RoomName]]_vars

\* joinRoom and ngOnDestroy were the only two events, and the service holds
\* a second, open socket for the room.
C27_Witness ==
  /\ nEvents = 2
  /\ subscriptions[Local] = 0
  /\ Len(Svc.sockets) = 2
  /\ Svc.sockets[1].readyState = "CLOSED"
  /\ Svc.ws = 2
  /\ Svc.sockets[2] = [readyState |-> "OPEN", room |-> RoomName]

(* ------------------------------ leaveCall ------------------------------- *)
Left == LeaveCallD(D(Local))

Rejoined == JoinRoomD(Left)

\* The Dashboard that has left, after an offer from r addressed to its id was
\* dispatched and every call of that connection has settled.
OfferedAfterLeave(r) ==
  RunToEnd(Dispatch(Left, OfferMsg(Local, r, Local), Left.subscriptions), r)

Answers(o, r) == {k \in DOMAIN o : o[k].type = "answer" /\ o[k].to = r}

\* C28: leaveCall empties the sessions map and the registry and emits bye;
\* the subscriptions, the SignalingService and the candidate buffers are as
\* before.  An offer addressed to the local id that arrives afterwards
\* creates a session with its sender and an answer is sent; a joinRoom
\* afterwards adds one subscription to those that are left, so that an
\* inbound envelope is dispatched at least twice (a candidate from an id
\* with no session is buffered once per subscription).
C28_LeaveCallStaysSubscribed ==
  [][(isNameUpdated[Local] /\ ~isNameUpdated'[Local]) =>
       /\ D(Local)' = Left
       /\ Left.peers = [r \in Ids |-> NoPeer]
       /\ Left.participantsMap = <<>>
       /\ Left.out = Append(out[Local], Envelope("bye", NoChan, 0))
       /\ Left.subscriptions = subscriptions[Local] /\ Left.subscriptions > 0
       /\ Left.signaling = signaling[Local]
       /\ Left.iceQueue = iceQueue[Local]
       /\ \A r \in Ids \ {Local} :
            /\ OfferedAfterLeave(r).peers[r].live
            /\ Answers(OfferedAfterLeave(r).out, r) # {}
            /\ Answers(Left.out, r) = {}
       /\ Rejoined.subscriptions = Left.subscriptions + 1
       /\ \A r \in Ids \ {Local} :
            Len(Dispatch(Rejoined, [Msg("ice_candidate") EXCEPT !.from = r, !.cand = 9],
                         Rejoined.subscriptions).iceQueue[r])
              = Len(Left.iceQueue[r]) + Left.subscriptions + 1]_vars

\* After leaveCall an offer from B was taken up: the Dashboard is not in a
\* call, holds a session with B and has an answer for B on its socket.
C28_Witness ==
  /\ ~isNameUpdated[Local]
  /\ subscriptions[Local] = 1
  /\ peers[Local]["B"].live
  /\ Answers(out[Local], "B") # {}

(* --------------------------- rows of one's own -------------------------- *)
SelfRows ==
  {[Row(Local, n) EXCEPT !.cam = c, !.mic = m] :
     n \in {"ann", "bob"}, c \in {Absent, "on", "off"}, m \in {Absent, "on"}}

Announcement(type, row) == [Msg(type) EXCEPT !.rows = <<row>>]

\* What a Dashboard that was welcomed under another id makes of the message.
AsRemote(d, msg) ==
  [OnSignal([d EXCEPT !.myServerChan = "C"], msg) EXCEPT !.myServerChan = d.myServerChan]

\* C29: once welcome has set the local id, a roster row, a join notice or an
\* update notice whose channel is the local id changes nothing of the
\* Dashboard, under one subscription or two: no registry entry, no session
\* and no renegotiate timer comes of it.  With the local id unset the same
\* message has the effect it has on a Dashboard of another id: a roster row
\* or join notice of an id that is not in the registry yields a session keyed
\* by that id, a renegotiate timer for it and a registry entry keyed by it
\* (unless an entry of the row's name takes the row).
C29_OwnRowsChangeNothing ==
  \A type \in {"participants", "participant_joined", "participant_updated"},
     row \in SelfRows :
    LET d == D(Local)
        msg == Announcement(type, row)
        seen == OnSignal(d, msg) IN
    /\ myServerChan[Local] = Local =>
         /\ seen = d
         /\ Dispatch(d, msg, 2) = d
    /\ myServerChan[Local] = NoChan =>
         /\ seen = AsRemote(d, msg)
         /\ (type # "participant_updated" /\ ~Has(d.participantsMap, Local)) =>
              /\ seen.peers[Local].live
              /\ seen.timers[Local] = d.timers[Local] + 1
              /\ \/ Has(seen.participantsMap, Local)
                 \/ \E k \in DOMAIN d.participantsMap :
                      /\ d.participantsMap[k].name = row.name
                      /\ ~d.participantsMap[k].isYou

\* A's own id was announced after the welcome and nothing came of it: the
\* registry holds the local entry only and there is no session.
C29_Witness ==
  /\ myServerChan[Local] = Local
  /\ delivered[Local] # <<>>
  /\ participantsMap[Local] = <<MakeLocalParticipant>>
  /\ \A r \in Ids : ~peers[Local][r].live /\ timers[Local][r] = 0

\* A's own id was announced before any welcome and was taken for a remote
\* participant: an entry and a session are keyed by it.
C29_WitnessUnwelcomed ==
  /\ myServerChan[Local] = NoChan
  /\ delivered[Local] # <<>>
  /\ Has(participantsMap[Local], Local)
  /\ peers[Local][Local].live

(* ----------------------- sessions of merged ids ------------------------- *)
Keys(pm) == {pm[k].channel : k \in DOMAIN pm}

SessionIds(d) == {r \in Ids : d.peers[r].live}

\* C30: a roster row or join notice of a remote id y that is not a registry
\* key and carries the name of the entry first seen under another id x
\* leaves the registry's keys as they are (the row is merged into x's
\* entry), yet a session keyed by y exists afterwards, new if there was
\* none, and one more renegotiate timer is pending for y; the same message
\* once more is taken up the same way and adds another timer.  So y is a
\* session id that is not a registry key.
C30_SessionsOfMergedIds ==
  LET d == D(Local)
      pm == d.participantsMap IN
  \A x, y \in Remotes, type \in {"participants", "participant_joined"} :
    (x # y /\ Has(pm, x) /\ ~Has(pm, y)) =>
      LET msg == Announcement(type, Row(y, pm[IndexOf(pm, x)].name))
          d1 == OnSignal(d, msg)
          d2 == OnSignal(d1, msg) IN
      /\ Keys(d1.participantsMap) = Keys(pm) /\ Len(d1.participantsMap) = Len(pm)
      /\ d1.peers[y].live
      /\ ~d.peers[y].live => d1.peers[y] = NewPeer(d.myPolite, "null", "null")
      /\ d.peers[y].live => d1.peers[y] = d.peers[y]
      /\ d1.timers[y] = d.timers[y] + 1
      /\ Keys(d2.participantsMap) = Keys(pm)
      /\ d2.timers[y] = d.timers[y] + 2
      /\ d2.peers = d1.peers
      /\ y \in SessionIds(d2) \ Keys(d2.participantsMap)

\* C announced itself twice under the name of B's entry: the registry holds
\* the local entry and B's, C has a session and two timers.
C30_Witness ==
  /\ Keys(participantsMap[Local]) = {"__you__", "B"}
  /\ peers[Local]["C"].live
  /\ timers[Local]["C"] = 2

====
